---- MODULE Spec2Model ----
(***************************************************************************)
(* Model of the dc-cli content-item archive / unarchive commands           *)
(* (src/src/commands/content-item/archive.ts, unarchive.ts) together with  *)
(* the archive log and the filter helper they use.                         *)
(*                                                                         *)
(* Strings are sequences of symbols.  Labels, schema ids and filter        *)
(* patterns are spelled character by character; log text is spelled with   *)
(* the separators "\n", " " and "//" as symbols of their own and every     *)
(* other word as one symbol, which is the granularity at which the log     *)
(* code splits and compares text.                                          *)
(***************************************************************************)
EXTENDS Integers, Sequences, FiniteSets, Bags, TLC

\* ------------------------------------------------------------------------
\* Bounds
\* ------------------------------------------------------------------------

\* number of content items that exist in the hub
NumItems == 4

\* number of command invocations in the round-trip specification
MaxRuns == 2

\* folder trees of content-item export: base folders, subfolders per folder
MaxBase == 11
MaxFan == 4

\* listings that may fail during one folder traversal
MaxFaults == 1

\* content dependency tree: items of a tree, references between them
MaxNodes == 3
MaxEdges == 4

\* content-type-schema export: previous exports, schemas to export,
\* filenames uniqueFilename chooses from, calls of the export record function
MaxPrev == 2
MaxEntities == 2
NumFresh == 2
MaxCalls == 2

\* content-item export: items of the hub, references of one item
NumExportItems == 3
MaxRefs == 2

\* event archive: events of one run, editions of one run
MaxEvents == 2
MaxEditions == 3

\* ------------------------------------------------------------------------
\* Strings
\* ------------------------------------------------------------------------

EmptyStr == << >>

\* optional arguments: undefined, a string, or an array of strings
Undef == [kind |-> "undefined"]
Str(s) == [kind |-> "string", v |-> s]
Arr(a) == [kind |-> "array", v |-> a]

\* arg != null
NotNull(arg) == arg.kind # "undefined"

NL == "\n"
SP == " "
SLASHES == "//"

\* JavaScript truthiness of an optional string or array argument
Truthy(arg) == arg.kind = "array" \/ (arg.kind = "string" /\ arg.v # EmptyStr)

\* Array.isArray(x) ? x : [x]   (also typeof x === 'string' ? [x] : x || [])
AsArray(arg) ==
  IF arg.kind = "array" THEN arg.v
  ELSE IF arg.kind = "string" THEN <<arg.v>>
  ELSE << >>

\* s.startsWith(p)
StartsWith(s, p) == Len(s) >= Len(p) /\ SubSeq(s, 1, Len(p)) = p

\* s.split(sep) for a one-symbol separator: always at least one part
RECURSIVE SplitAcc(_, _, _, _)
SplitAcc(s, sep, cur, acc) ==
  IF s = << >> THEN Append(acc, cur)
  ELSE IF Head(s) = sep THEN SplitAcc(Tail(s), sep, << >>, Append(acc, cur))
  ELSE SplitAcc(Tail(s), sep, Append(cur, Head(s)), acc)

Split(s, sep) == SplitAcc(s, sep, << >>, << >>)

\* parts.join(sep)
RECURSIVE Join(_, _)
Join(parts, sep) ==
  IF parts = << >> THEN << >>
  ELSE IF Len(parts) = 1 THEN parts[1]
  ELSE parts[1] \o <<sep>> \o Join(Tail(parts), sep)

\* s.trimLeft(): drops leading blanks
RECURSIVE TrimLeft(_)
TrimLeft(s) ==
  IF s # << >> /\ Head(s) \in {SP, NL} THEN TrimLeft(Tail(s)) ELSE s

\* concatenation of a sequence of strings
RECURSIVE Concat(_)
Concat(ss) == IF ss = << >> THEN << >> ELSE Head(ss) \o Concat(Tail(ss))

\* the sub-sequence of s whose elements satisfy Test, order kept (Array.filter)
RECURSIVE SelectIdx(_, _, _)
SelectIdx(s, k, keep) ==
  IF k > Len(s) THEN << >>
  ELSE (IF keep[k] THEN <<s[k]>> ELSE << >>) \o SelectIdx(s, k + 1, keep)

Range(s) == {s[k] : k \in 1..Len(s)}

\* first-occurrence replacement of one symbol (String.replace with a string)
RECURSIVE ReplaceFirst(_, _, _)
ReplaceFirst(s, what, by) ==
  IF s = << >> THEN << >>
  ELSE IF Head(s) = what THEN by \o Tail(s)
  ELSE <<Head(s)>> \o ReplaceFirst(Tail(s), what, by)

\* ------------------------------------------------------------------------
\* Filter helper (common/filter/filter.ts): equalsOrRegex
\* ------------------------------------------------------------------------

\* the regular expressions of the model are literal characters and ".",
\* which stands for any one character
RegexAt(value, body, at) ==
  /\ at + Len(body) - 1 <= Len(value)
  /\ \A k \in 1..Len(body) : body[k] = "." \/ body[k] = value[at + k - 1]

\* RegExp.test: un-anchored, a single match suffices
RegexTest(body, value) ==
  \E at \in 1..(Len(value) + 1) : RegexAt(value, body, at)

equalsOrRegex(value, compare) ==
  IF Len(compare) > 1 /\ compare[1] = "/" /\ compare[Len(compare)] = "/"
  THEN RegexTest(SubSeq(compare, 2, Len(compare) - 1), value)
  ELSE value = compare

\* a pattern whose body does not compile (here: a group that is opened and
\* never closed): the compilation failure propagates to the caller
compileFails(compare) ==
  /\ Len(compare) > 1 /\ compare[1] = "/" /\ compare[Len(compare)] = "/"
  /\ \E k \in 2..(Len(compare) - 1) : compare[k] = "("

\* ------------------------------------------------------------------------
\* Archive log (common/archive/archive-log.ts)
\* ------------------------------------------------------------------------

Comment(text) == [comment |-> TRUE, action |-> EmptyStr, data |-> text]
Action(verb, data) == [comment |-> FALSE, action |-> verb, data |-> data]

\* new ArchiveLog(title)
NewLog(title) == [title |-> title, items |-> << >>]

\* addAction(verb, id): one more action record at the end of the buffer
addAction(l, verb, data) == [l EXCEPT !.items = Append(@, Action(verb, data))]

\* addComment(text): one more comment at the end of the buffer
addComment(l, text) == [l EXCEPT !.items = Append(@, Comment(text))]

\* getData(verb): the data of the actions recorded under verb, in order
getData(l, verb) ==
  LET keep == [k \in 1..Len(l.items) |->
                 ~l.items[k].comment /\ l.items[k].action = verb]
      kept == SelectIdx(l.items, 1, keep)
  IN  [k \in 1..Len(kept) |-> kept[k].data]

\* the text of one buffer entry: "// text\n" or "VERB data\n"
LineOf(item) ==
  IF item.comment THEN <<SLASHES, SP>> \o item.data \o <<NL>>
  ELSE item.action \o <<SP>> \o item.data \o <<NL>>

\* writeToFile: the header comment, then the buffer, one directive per line
LogText(l) ==
  <<SLASHES, SP>> \o l.title \o <<NL>>
    \o Concat([k \in 1..Len(l.items) |-> LineOf(l.items[k])])

\* one line of a log file, added to the log being loaded
ParseLine(l, line, first) ==
  IF StartsWith(line, <<SLASHES>>)
  THEN IF first THEN [l EXCEPT !.title = TrimLeft(Tail(line))]
       ELSE addComment(l, TrimLeft(Tail(line)))
  ELSE LET parts == Split(line, SP)
       IN  IF Len(parts) >= 2
           THEN addAction(l, parts[1], Join(Tail(parts), SP))
           ELSE l

RECURSIVE ParseLines(_, _, _)
ParseLines(l, lines, k) ==
  IF k > Len(lines) THEN l
  ELSE ParseLines(ParseLine(l, lines[k], k = 1), lines, k + 1)

\* loadFromFile: the log parsed from the text of a file
LoadLog(text) == ParseLines(NewLog(EmptyStr), Split(text, NL), 1)

\* ------------------------------------------------------------------------
\* The hub: repositories, folders and content items of the remote service
\* ------------------------------------------------------------------------

Items == 1..NumItems

RepoIds == <<<<"repo1">>, <<"repo2">>>>
FolderIds == <<<<"folder1">>>>

\* contentItem.id
ItemId(i) == <<ToString(i)>>

\* contentItem.label
ItemLabel(i) ==
  CASE i = 1 -> <<"s", "c", "h", "e", "m", "a", "1">>
    [] i = 2 -> <<"s", "c", "h", "e", "m", "a", "M", "a", "t", "c", "h", "1">>
    [] i = 3 -> <<"s", "c", "h", "e", "m", "a", "M", "a", "t", "c", "h", "2">>
    [] i = 4 -> <<"s", "c", "h", "e", "m", "a", "B", "a", "n", "a", "n", "a">>
    [] OTHER -> <<"i", "t", "e", "m", ToString(i)>>

\* contentItem.body._meta: the last item of the hub has a body without _meta
HasMeta(i) == i < NumItems

\* contentItem.body._meta.schema
ItemSchema(i) ==
  IF i % 2 = 1 THEN <<"h", "t", "t", "p", ":", "/", "/", "t", "e", "s", "t", ".", "c", "o", "m">>
  ELSE <<"h", "t", "t", "p", ":", "/", "/", "t", "e", "s", "t", "1", ".", "c", "o", "m">>

\* the repository and the folder an item lives in
ItemRepo(i) == IF i % 2 = 1 THEN RepoIds[1] ELSE RepoIds[2]
ItemFolder(i) == IF i <= 2 THEN FolderIds[1] ELSE EmptyStr

Statuses == {"ACTIVE", "ARCHIVED"}

\* paginator(repository.related.contentItems.list, {status}): the items of
\* the repository that have the status, in the order of the listing
ListRepo(repo, wanted, st) ==
  SelectIdx([i \in Items |-> i], 1,
            [i \in Items |-> ItemRepo(i) = repo /\ st[i] = wanted])

\* paginator(folder.related.contentItems.list): the items of the folder
ListFolder(folder) ==
  SelectIdx([i \in Items |-> i], 1, [i \in Items |-> ItemFolder(i) = folder])

\* the orders in which n concurrent listings can complete
Perms(n) == {p \in [1..n -> 1..n] : \A a, b \in 1..n : p[a] = p[b] => a = b}

\* ------------------------------------------------------------------------
\* Command line arguments (ArchiveOptions)
\* ------------------------------------------------------------------------

Commands == {"archive", "unarchive"}

\* the verb a command records
VerbOf(c) == IF c = "archive" THEN <<"ARCHIVE">> ELSE <<"UNARCHIVE">>

\* variant of line 144: the command replays its own verb
RevertVerbOf_own(c) == IF c = "archive" THEN <<"ARCHIVE">> ELSE <<"UNARCHIVE">>

\* the verb a command replays from a revert log
RevertVerbOf(c) == IF c = "archive" THEN <<"UNARCHIVE">> ELSE <<"ARCHIVE">>

\* the status a command lists, and the status its call leaves behind
SourceStatus(c) == IF c = "archive" THEN "ACTIVE" ELSE "ARCHIVED"
TargetStatus(c) == IF c = "archive" THEN "ARCHIVED" ELSE "ACTIVE"

\* the item statuses a run of the command can find in the hub: every item in
\* the status the command looks for, or the first item already in the other
InitialStatuses(c) ==
  { [k \in Items |-> SourceStatus(c)],
    [k \in Items |-> IF k = 1 THEN TargetStatus(c) ELSE SourceStatus(c)] }

MissingId == <<"9">>

IdArgs == {Undef, Str(EmptyStr), Str(ItemId(1)), Str(MissingId)}

NameArgs ==
  { Undef, Str(EmptyStr),
    Str(<<"/", "s", "c", "h", "e", "m", "a", "M", "a", "t", "c", "h", "/">>),
    Str(<<"/", "(", "/">>),
    Arr(<<<<"/", "m", "a", "t", "c", "h", "/">>, <<"s", "c", "h", "e", "m", "a", "M", "a", "t", "c", "h">>, <<"/", "a", ".", "a", "/">>>>),
    Arr(<<<<"/", "s", "c", "h", "e", "m", "a", "1", "/">>, <<"s", "c", "h", "e", "m", "a", "M", "a", "t", "c", "h", "2">>>>) }

ContentTypeArgs == {Undef, Str(<<"/", "t", "e", "s", "t", "/">>), Str(<<"h", "t", "t", "p", ":", "/", "/", "t", "e", "s", "t", ".", "c", "o", "m">>)}

RepoArgs == {Undef, Str(RepoIds[1]), Str(<<"repo123">>), Arr(RepoIds)}

FolderArgs ==
  {Undef, Str(FolderIds[1]), Str(<<"folder9">>), Arr(<<FolderIds[1], FolderIds[1]>>)}

RevertPath == <<"revert.log">>
LogPath == <<"out-", "<DATE>", ".log">>

RevertArgs == {Undef, Str(RevertPath)}
LogFileArgs == {Undef, Str(LogPath)}

\* Date.now().toString() of the n-th invocation
Timestamp(n) == <<"t", ToString(n)>>

\* e.toString() of a rejected call
ErrorText == <<"Error:", SP, "Error">>

\* revert logs of earlier runs, as the tests write them: a header comment,
\* actions of both verbs, a failure comment, an id that no item has, a line
\* without a blank
RevertLogA ==
  <<SLASHES, SP, "Type log test file", NL,
    "ARCHIVE", SP, "1", NL,
    "UNARCHIVE", SP, "2", NL,
    SLASHES, SP, "ARCHIVE", SP, "FAILED:", SP, "3", NL,
    "ARCHIVE", SP, "4", NL,
    "DELETE", SP, "3", NL,
    "UNARCHIVE", SP, "3", NL,
    "ARCHIVE", SP, "idMissing", NL,
    "garbage">>

RevertLogB ==
  <<SLASHES, SP, "Type log test file", NL,
    "ARCHIVE", SP, "2", NL,
    "ARCHIVE", SP, "1", NL,
    "UNARCHIVE", SP, "1", NL>>

\* the file systems a run can start with
InitialFiles ==
  { [path \in {} |-> EmptyStr],
    [path \in {RevertPath} |-> RevertLogA],
    [path \in {RevertPath} |-> RevertLogB] }

Argv ==
  [ id : IdArgs, name : NameArgs, contentType : ContentTypeArgs,
    repoId : RepoArgs, folderId : FolderArgs, revertLog : RevertArgs,
    logFile : LogFileArgs, force : BOOLEAN, silent : BOOLEAN,
    ignoreError : BOOLEAN ]

\* ------------------------------------------------------------------------
\* State
\* ------------------------------------------------------------------------

VARIABLES
  cmd,            \* the command that runs: archive or unarchive
  argv,           \* its arguments
  run,            \* number of the invocation
  pc,             \* position of the handler
  exit,           \* source line of the return that ended the handler, 0 while it runs
  contentItems,   \* the handler's list of items (indexes into the hub)
  fetched,        \* the items as fetched, before any filter
  allContent,
  missingContent,
  log,            \* the ArchiveLog of the run
  i,              \* loop index: iterations completed
  successCount,
  status,         \* remote: the status of every item
  files,          \* the file system: path -> text
  remote,         \* remote fetches issued, per kind
  prompts,        \* confirmation answers consumed
  asked,          \* the flags the confirmation was asked with
  calls,          \* items on which archive/unarchive was called, in order
  outstanding,    \* calls issued and not yet settled
  results,        \* outcome of every settled call, in order
  writes,         \* texts handed to writeToFile by this run, in order
  prev            \* summary of the previous invocation

\* the state of content-item archive and unarchive
handlerVars ==
  << cmd, argv, run, pc, exit, contentItems, fetched, allContent,
     missingContent, log, i, successCount, status, files, remote, prompts,
     asked, calls, outstanding, results, writes, prev >>

\* the folder traversal of content-item export (getContentItems)
VARIABLES
  shape,           \* the folder tree of the hub: base folders, fan-out, depth
  tpc,             \* position of getContentItems
  processFolders,  \* the group of folders being traversed
  inFlight,        \* folders whose traversal has started and not ended
  nextFolders,     \* subfolders found and not yet dispatched
  baseFolder,
  folderItems,     \* folders whose items were appended to the result
  faults,          \* listings that have failed
  visits,          \* how many times the traversal of each folder has run
  discovered       \* the subfolders pushed to nextFolders

traverseVars ==
  << shape, tpc, processFolders, inFlight, nextFolders, baseFolder, folderItems,
     faults, visits, discovered >>

\* content-item export after getContentItems (export handler)
VARIABLES
  hub,             \* the items of the hub: their references and status
  selected,        \* the items left by the schemaId and name filters
  epc,             \* position of the export handler
  exportItems,     \* the handler's items: records of an item and its path
  missingIdArray,  \* Array.from(missingIDs)
  mi,              \* index of the loop over missingIdArray
  fetches,         \* contentItems.get calls of that loop, with their outcome
  elog,            \* lines appended to the FileLog
  filenames,       \* paths allocated by this run
  written,         \* writeJsonToFile calls, in order
  wi               \* index of the loop that saves the items

exportVars ==
  << hub, selected, epc, exportItems, missingIdArray, mi, fetches, elog,
     filenames, written, wi >>

\* the content dependency tree (ContentDependancyTree)
VARIABLES
  graph,           \* the items given to the tree and their references
  batches,         \* the groups produced so far, in order
  tdone            \* the traversal has ended

treeVars == << graph, batches, tdone >>

\* content-type-schema export
VARIABLES
  prevExports,     \* previously exported schemas: filename, schemaId, body
  entities,        \* the schemas being exported: schemaId, body
  records,         \* the export records computed, in order
  allocs,          \* filenames handed out by uniqueFilename, in order
  spc,             \* position of processContentTypeSchemas
  sprompts,        \* answers of promptToOverwriteExports, in order
  swritten,        \* filenames given to writeJsonToFile, in order
  rows,            \* rows written to the table stream
  sexit            \* the code process.exit was called with, -1 if it was not

schemaVars ==
  << prevExports, entities, records, allocs, spc, sprompts, swritten, rows,
     sexit >>

\* event archive
VARIABLES
  events,          \* the events found, with their editions and lists
  vpc,             \* position of the event archive handler
  vexit,           \* line of the return that ended it, 0 while it runs
  vi,              \* index of the loop of lines 198-249
  vlog,            \* the ArchiveLog of the run
  vcount,          \* successCount of the run
  pending,         \* remote calls issued and not yet completed
  awaited,         \* the calls the handler is waiting for
  trace,           \* the calls of the event at hand, issued and completed
  called,          \* the events whose own call has succeeded
  responses,       \* what the fetches of getEventUntilSuccess answer
  got              \* what getEventUntilSuccess gave

eventVars ==
  << events, vpc, vexit, vi, vlog, vcount, pending, awaited, trace, called,
     responses, got >>

\* the state of the commands other than content-item archive and unarchive
otherCommands ==
  << traverseVars, exportVars, treeVars, schemaVars, eventVars >>

\* the state that each of the other components leaves alone
exceptTraverse == << handlerVars, exportVars, treeVars, schemaVars, eventVars >>
exceptExport == << handlerVars, traverseVars, treeVars, schemaVars, eventVars >>
exceptTree == << handlerVars, traverseVars, exportVars, schemaVars, eventVars >>
exceptSchema == << handlerVars, traverseVars, exportVars, treeVars, eventVars >>
exceptEvent == << handlerVars, traverseVars, exportVars, treeVars, schemaVars >>

vars == << handlerVars, otherCommands >>

\* getContentItems is not running
TraverseIdle ==
  /\ shape = [base |-> 0, fan |-> 0, depth |-> 1, again |-> FALSE]
  /\ tpc = "idle"
  /\ processFolders = << >>
  /\ inFlight = {}
  /\ nextFolders = << >>
  /\ baseFolder = TRUE
  /\ folderItems = {}
  /\ faults = 0
  /\ visits = EmptyBag
  /\ discovered = {}

\* the export handler is not running
ExportIdle ==
  /\ hub = [refs |-> << >>, status |-> << >>]
  /\ selected = << >>
  /\ epc = "idle"
  /\ exportItems = << >>
  /\ missingIdArray = << >>
  /\ mi = 0
  /\ fetches = << >>
  /\ elog = << >>
  /\ filenames = << >>
  /\ written = << >>
  /\ wi = 0

\* no tree has been built
TreeIdle ==
  /\ graph = [n |-> 0, refs |-> {}]
  /\ batches = << >>
  /\ tdone = FALSE

\* content-type-schema export is not running
SchemaIdle ==
  /\ prevExports = << >>
  /\ entities = << >>
  /\ records = << >>
  /\ allocs = << >>
  /\ spc = "idle"
  /\ sprompts = << >>
  /\ swritten = << >>
  /\ rows = << >>
  /\ sexit = -1

\* event archive is not running
EventIdle ==
  /\ events = << >>
  /\ vpc = "idle"
  /\ vexit = 0
  /\ vi = 0
  /\ vlog = NewLog(EmptyStr)
  /\ vcount = 0
  /\ pending = {}
  /\ awaited = {}
  /\ trace = << >>
  /\ called = {}
  /\ responses = << >>
  /\ got = << >>

OthersIdle ==
  TraverseIdle /\ ExportIdle /\ TreeIdle /\ SchemaIdle /\ EventIdle

NoRemote ==
  [hub |-> 0, repoGet |-> 0, repoList |-> 0, folderGet |-> 0,
   itemList |-> 0, itemGet |-> 0]

NoPrev == [cmd |-> "none", succeeded |-> << >>, failed |-> << >>, path |-> EmptyStr]

NotAsked ==
  [done |-> FALSE, yes |-> FALSE, allContent |-> FALSE, missingContent |-> FALSE]

\* the locals of a handler that has just been entered
Entered ==
  /\ pc = "start"
  /\ exit = 0
  /\ contentItems = << >>
  /\ fetched = << >>
  /\ allContent = FALSE
  /\ missingContent = FALSE
  /\ log = NewLog(EmptyStr)
  /\ i = 0
  /\ successCount = 0
  /\ remote = NoRemote
  /\ prompts = 0
  /\ asked = NotAsked
  /\ calls = << >>
  /\ outstanding = 0
  /\ results = << >>
  /\ writes = << >>

Init ==
  /\ cmd \in Commands
  /\ argv \in Argv
  /\ run = 1
  /\ status \in InitialStatuses(cmd)
  /\ files \in InitialFiles
  /\ (argv.revertLog = Undef => files = [path \in {} |-> EmptyStr])
  /\ prev = NoPrev
  /\ Entered
  /\ OthersIdle

\* the archive and unarchive handlers are not running
HandlerIdle ==
  /\ cmd = "archive"
  /\ argv = [id |-> Undef, name |-> Undef, contentType |-> Undef,
             repoId |-> Undef, folderId |-> Undef, revertLog |-> Undef,
             logFile |-> Undef, force |-> FALSE, silent |-> FALSE,
             ignoreError |-> FALSE]
  /\ run = 1
  /\ status = [k \in Items |-> "ACTIVE"]
  /\ files = [path \in {} |-> EmptyStr]
  /\ prev = NoPrev
  /\ Entered

\* return from the handler at a source line: the last line ends a complete
\* run, every other return ends the command early
LastLine == 219

Return(line) ==
  /\ pc' = IF line = LastLine THEN "done" ELSE "ended"
  /\ exit' = line

\* an exception that no try block of the handler catches: the promise of
\* the handler is rejected at that line
Throw(line) ==
  /\ pc' = "threw"
  /\ exit' = line

\* how the handler's promise has settled: a return resolves it
Outcome ==
  CASE pc = "threw" -> "rejected"
    [] pc \in {"ended", "done"} -> "resolved"
    [] OTHER -> "pending"

\* ------------------------------------------------------------------------
\* handler (archive.ts / unarchive.ts, lines 76-220)
\* ------------------------------------------------------------------------

\* variant of line 88: the check is missing
BothGiven_never(id, name) == FALSE

\* line 88: if (id && name)
BothGiven(id, name) == Truthy(id) /\ Truthy(name)

\* lines 84-95: id and name together end the command
CheckArgs ==
  /\ pc = "start"
  /\ IF BothGiven(argv.id, argv.name)
     THEN Return(90)
     ELSE /\ pc' = IF NotNull(argv.id) THEN "getById" ELSE "list"
          /\ UNCHANGED exit
  /\ UNCHANGED << cmd, argv, run, contentItems, fetched, allContent,
                  missingContent, log, i, successCount, status, files, remote,
                  prompts, asked, calls, outstanding, results, writes, prev >>
  /\ UNCHANGED otherCommands

\* the items whose id is the given one
ItemsWithId(id) == {k \in Items : ItemId(k) = id}

\* lines 97-104: client.contentItems.get(id)
FetchById ==
  /\ pc = "getById"
  /\ remote' = [remote EXCEPT !.itemGet = @ + 1]
  /\ \E ok \in BOOLEAN :
       IF ok /\ ItemsWithId(argv.id.v) # {}
       THEN /\ contentItems' = <<CHOOSE k \in Items : ItemId(k) = argv.id.v>>
            /\ fetched' = contentItems'
            /\ pc' = "check"
            /\ UNCHANGED exit
       ELSE /\ Return(103)
            /\ UNCHANGED << contentItems, fetched >>
  /\ UNCHANGED << cmd, argv, run, allContent, missingContent, log, i,
                  successCount, status, files, prompts, asked, calls,
                  outstanding, results, writes, prev >>
  /\ UNCHANGED otherCommands

\* lines 124 and 130: the items a listing contributes; a repository is
\* listed with the status as a query, a folder's items are filtered here
ListedFrom(c, source, byFolder, st) ==
  IF byFolder
  THEN LET items == ListFolder(source)
       IN  SelectIdx(items, 1,
             [n \in 1..Len(items) |->
                IF c = "archive" THEN st[items[n]] = "ACTIVE"
                ELSE st[items[n]] # "ACTIVE"])
  ELSE ListRepo(source, SourceStatus(c), st)

\* lines 117-133: the items pushed by the listings of the sources, in the
\* order in which the listings complete
Listed(c, sources, byFolder, order, st) ==
  Concat([k \in 1..Len(sources) |-> ListedFrom(c, sources[order[k]], byFolder, st)])

InSeq(x, s) == \E k \in 1..Len(s) : s[k] = x

\* lines 106-139: hub, repositories, folders, then the item listings
FetchList ==
  /\ pc = "list"
  /\ \E fault \in {"none", "hub", "list"} :
       LET repoIds == AsArray(argv.repoId)
           folderIds == AsArray(argv.folderId)
           byRepoId == NotNull(argv.repoId)
           byFolder == NotNull(argv.folderId)
           hubOk == fault # "hub"
           reposOk == byRepoId => \A k \in 1..Len(repoIds) : InSeq(repoIds[k], RepoIds)
           foldersOk == byFolder => \A k \in 1..Len(folderIds) : InSeq(folderIds[k], FolderIds)
           contentRepositories == IF byRepoId THEN repoIds ELSE RepoIds
           sources == IF byFolder THEN folderIds ELSE contentRepositories
           listed == hubOk /\ reposOk /\ foldersOk
       IN  /\ remote' =
                [remote EXCEPT
                   !.hub = @ + 1,
                   !.repoGet = @ + (IF hubOk /\ byRepoId THEN Len(repoIds) ELSE 0),
                   !.repoList = @ + (IF hubOk /\ ~byRepoId THEN 1 ELSE 0),
                   !.folderGet = @ + (IF hubOk /\ reposOk /\ byFolder
                                      THEN Len(folderIds) ELSE 0),
                   !.itemList = @ + (IF listed THEN Len(sources) ELSE 0)]
           /\ IF listed /\ fault = "none"
              THEN /\ \E order \in Perms(Len(sources)) :
                        contentItems' = Listed(cmd, sources, byFolder, order, status)
                   /\ fetched' = contentItems'
                   /\ pc' = "select"
                   /\ UNCHANGED exit
              ELSE /\ Return(138)
                   /\ UNCHANGED << contentItems, fetched >>
  /\ UNCHANGED << cmd, argv, run, allContent, missingContent, log, i,
                  successCount, status, files, prompts, asked, calls,
                  outstanding, results, writes, prev >>
  /\ UNCHANGED otherCommands

\* variant of line 155: every pattern has to match
MatchesAny_all(value, patterns) ==
  \A k \in 1..Len(patterns) : equalsOrRegex(value, patterns[k])

\* findIndex(pattern => equalsOrRegex(value, pattern)) != -1
MatchesAny(value, patterns) ==
  \E k \in 1..Len(patterns) : equalsOrRegex(value, patterns[k])

\* findIndex tries the patterns in order and stops at the first match: it
\* throws when it reaches a pattern that does not compile
FindIndexThrows(value, patterns) ==
  \E k \in 1..Len(patterns) :
    /\ compileFails(patterns[k])
    /\ \A j \in 1..(k - 1) : ~equalsOrRegex(value, patterns[j])

\* lines 153-162: the filter callback throws on some item
FilterThrows(items, name, contentType) ==
  IF NotNull(name)
  THEN \E k \in 1..Len(items) : FindIndexThrows(ItemLabel(items[k]), AsArray(name))
  ELSE /\ NotNull(contentType)
       /\ \E k \in 1..Len(items) :
            HasMeta(items[k]) /\ FindIndexThrows(ItemSchema(items[k]), AsArray(contentType))

\* variant of lines 149-152: the catch block does not return
LoadFailed_goesOn(line) ==
  /\ pc' = "check"
  /\ UNCHANGED exit

\* lines 149-152: the revert log could not be read
LoadFailed(line) == Return(line)

\* lines 153-155: the items whose label matches one of the names
FilterByName(items, name) ==
  SelectIdx(items, 1,
    [k \in 1..Len(items) |-> MatchesAny(ItemLabel(items[k]), AsArray(name))])

\* lines 156-162: the items whose schema matches one of the content types
FilterByContentType(items, contentType) ==
  SelectIdx(items, 1,
    [k \in 1..Len(items) |->
       HasMeta(items[k]) /\ MatchesAny(ItemSchema(items[k]), AsArray(contentType))])

\* lines 144-145: the items whose id the log lists
FilterByIds(items, ids) ==
  SelectIdx(items, 1, [k \in 1..Len(items) |-> InSeq(ItemId(items[k]), ids)])

\* lines 141-166: revert log, name filter, content type filter, or everything
Select ==
  /\ pc = "select"
  /\ IF NotNull(argv.revertLog)
     THEN IF argv.revertLog.v \in DOMAIN files
          THEN LET ids == getData(LoadLog(files[argv.revertLog.v]), RevertVerbOf(cmd))
                   kept == FilterByIds(contentItems, ids)
               IN  /\ contentItems' = kept
                   /\ missingContent' = (Len(kept) # Len(ids))
                   /\ pc' = "check"
                   /\ UNCHANGED << allContent, exit >>
          ELSE /\ LoadFailed(151)
               /\ UNCHANGED << contentItems, allContent, missingContent >>
     ELSE IF FilterThrows(contentItems, argv.name, argv.contentType)
     THEN /\ Throw(IF NotNull(argv.name) THEN 155 ELSE 160)
          /\ UNCHANGED << contentItems, allContent, missingContent >>
     ELSE /\ pc' = "check"
          /\ UNCHANGED << exit, missingContent >>
          /\ IF NotNull(argv.name)
             THEN /\ contentItems' = FilterByName(contentItems, argv.name)
                  /\ UNCHANGED allContent
             ELSE IF NotNull(argv.contentType)
             THEN /\ contentItems' = FilterByContentType(contentItems, argv.contentType)
                  /\ UNCHANGED allContent
             ELSE /\ allContent' = TRUE
                  /\ UNCHANGED contentItems
  /\ UNCHANGED << cmd, argv, run, fetched, log, i, successCount, status, files,
                  remote, prompts, asked, calls, outstanding, results, writes,
                  prev >>
  /\ UNCHANGED otherCommands

\* lines 169-178: nothing found ends the command
CheckEmpty ==
  /\ pc = "check"
  /\ IF Len(contentItems) = 0
     THEN Return(171)
     ELSE /\ pc' = "confirm"
          /\ UNCHANGED exit
  /\ UNCHANGED << cmd, argv, run, contentItems, fetched, allContent,
                  missingContent, log, i, successCount, status, files, remote,
                  prompts, asked, calls, outstanding, results, writes, prev >>
  /\ UNCHANGED otherCommands

\* the title of the log of a run
LogTitle(c, n) ==
  <<IF c = "archive" THEN "Content Items Archive Log - "
    ELSE "Content Items Unarchive Log - ">> \o Timestamp(n) \o <<NL>>

\* variant of line 180: the confirmation is always requested
Prompted_always(force) == TRUE

\* line 180: if (!force)
Prompted(force) == ~force

\* variant of line 182: the answer is not looked at
Declined_ignored(yes) == FALSE

\* line 182: if (!yes)
Declined(yes) == ~yes

\* lines 180-190: confirmation unless forced, then the fresh log
Confirm ==
  /\ pc = "confirm"
  /\ \E yes \in BOOLEAN :
       IF Prompted(argv.force)
       THEN /\ prompts' = prompts + 1
            /\ asked' = [done |-> TRUE, yes |-> yes, allContent |-> allContent,
                         missingContent |-> missingContent]
            /\ IF Declined(yes)
               THEN /\ Return(183)
                    /\ UNCHANGED << log, successCount, i >>
               ELSE /\ log' = NewLog(LogTitle(cmd, run))
                    /\ successCount' = 0
                    /\ i' = 0
                    /\ pc' = "loop"
                    /\ UNCHANGED exit
       ELSE /\ yes
            /\ log' = NewLog(LogTitle(cmd, run))
            /\ successCount' = 0
            /\ i' = 0
            /\ pc' = "loop"
            /\ UNCHANGED << exit, prompts, asked >>
  /\ UNCHANGED << cmd, argv, run, contentItems, fetched, allContent,
                  missingContent, status, files, remote, calls, outstanding,
                  results, writes, prev >>
  /\ UNCHANGED otherCommands

\* variant of line 195: the call is issued and not awaited
Awaited_not == "loop"

\* line 195: await contentItems[i].related.archive(): the handler goes no
\* further until the call has settled
Awaited == "await"

\* lines 192-195: the loop test and the call on the next item
IssueCall ==
  /\ pc = "loop"
  /\ IF i < Len(contentItems)
     THEN /\ calls' = Append(calls, contentItems[i + 1])
          /\ outstanding' = outstanding + 1
          /\ pc' = Awaited
     ELSE /\ pc' = "write"
          /\ UNCHANGED << calls, outstanding >>
  /\ UNCHANGED << cmd, argv, run, exit, contentItems, fetched, allContent,
                  missingContent, log, i, successCount, status, files, remote,
                  prompts, asked, results, writes, prev >>
  /\ UNCHANGED otherCommands

\* lines 194-197: the call resolves
CallSucceeds ==
  /\ pc = "await"
  /\ outstanding' = outstanding - 1
  /\ results' = Append(results, "ok")
  /\ status' = [status EXCEPT ![contentItems[i + 1]] = TargetStatus(cmd)]
  /\ log' = addAction(log, VerbOf(cmd), ItemId(contentItems[i + 1]) \o <<NL>>)
  /\ successCount' = successCount + 1
  /\ i' = i + 1
  /\ pc' = "loop"
  /\ UNCHANGED << cmd, argv, run, exit, contentItems, fetched, allContent,
                  missingContent, files, remote, prompts, asked, calls,
                  writes, prev >>
  /\ UNCHANGED otherCommands

\* variant of lines 199-200: the failed item is recorded as an action
FailureComments_asAction(l, c, item) ==
  addAction(l, VerbOf(c), ItemId(item) \o <<NL>>)

\* variant of lines 199-200: the error text is not logged
FailureComments_noText(l, c, item) ==
  addComment(l, VerbOf(c) \o <<SP, "FAILED:", SP>> \o ItemId(item))

\* variant of lines 199-200: the failure starts the log afresh
FailureComments_fresh(l, c, item) ==
  addComment(addComment(NewLog(l.title),
                        VerbOf(c) \o <<SP, "FAILED:", SP>> \o ItemId(item)),
             ErrorText)

\* lines 199-200: the two comments a failed call leaves in the log
FailureComments(l, c, item) ==
  addComment(addComment(l, VerbOf(c) \o <<SP, "FAILED:", SP>> \o ItemId(item)),
             ErrorText)

\* variants of line 202: the break is missing / the loop always breaks
ContinueAfterFailure_always(ignoreError) == TRUE
ContinueAfterFailure_never(ignoreError) == FALSE

\* line 202: if (ignoreError) the loop goes on, else break
ContinueAfterFailure(ignoreError) == ignoreError

\* lines 198-212: the call rejects
CallFails ==
  /\ pc = "await"
  /\ outstanding' = outstanding - 1
  /\ results' = Append(results, "failed")
  /\ log' = FailureComments(log, cmd, contentItems[i + 1])
  /\ IF ContinueAfterFailure(argv.ignoreError)
     THEN /\ i' = i + 1
          /\ pc' = "loop"
     ELSE /\ pc' = "write"
          /\ UNCHANGED i
  /\ UNCHANGED << cmd, argv, run, exit, contentItems, fetched, allContent,
                  missingContent, successCount, status, files, remote, prompts,
                  asked, calls, writes, prev >>
  /\ UNCHANGED otherCommands

\* variant of line 215: silent is not looked at
WritesLog_evenSilent(silent, logFile) == Truthy(logFile)

\* line 215: if (!silent && logFile)
WritesLog(silent, logFile) == ~silent /\ Truthy(logFile)

\* line 216: logFile.replace('<DATE>', timestamp)
LogFilePath(logFile, n) == ReplaceFirst(logFile.v, "<DATE>", Timestamp(n))

\* lines 215-219: the log file, then the end of the command
WriteLog ==
  /\ pc = "write"
  /\ IF WritesLog(argv.silent, argv.logFile)
     THEN LET path == LogFilePath(argv.logFile, run)
          IN  /\ files' = [p \in DOMAIN files \cup {path} |->
                             IF p = path THEN LogText(log) ELSE files[p]]
              /\ writes' = Append(writes, [path |-> path, text |-> LogText(log)])
     ELSE UNCHANGED << files, writes >>
  /\ Return(LastLine)
  /\ UNCHANGED << cmd, argv, run, contentItems, fetched, allContent,
                  missingContent, log, i, successCount, status, remote, prompts,
                  asked, calls, outstanding, results, prev >>
  /\ UNCHANGED otherCommands

Next ==
  \/ CheckArgs
  \/ FetchById
  \/ FetchList
  \/ Select
  \/ CheckEmpty
  \/ Confirm
  \/ IssueCall
  \/ CallSucceeds
  \/ CallFails
  \/ WriteLog

Spec == Init /\ [][Next]_vars

\* ------------------------------------------------------------------------
\* Derived views of a run
\* ------------------------------------------------------------------------

\* the items whose call had the given outcome, in call order
WithResult(r) ==
  SelectIdx(calls, 1,
    [k \in 1..Len(calls) |-> k <= Len(results) /\ results[k] = r])

Succeeded == WithResult("ok")
Failed == WithResult("failed")

\* ------------------------------------------------------------------------
\* Round trip: a run that wrote its log, then the other command run with
\* that log as its revertLog
\* ------------------------------------------------------------------------

OtherCommand(c) == IF c = "archive" THEN "unarchive" ELSE "archive"

\* the arguments of the first run: it writes its log
FirstArgv ==
  [ id : {Undef, Str(ItemId(1))}, name : {Undef}, contentType : {Undef},
    repoId : {Undef, Str(RepoIds[1])}, folderId : {Undef, Str(FolderIds[1])},
    revertLog : {Undef}, logFile : {Str(LogPath)}, force : {FALSE},
    silent : {FALSE}, ignoreError : BOOLEAN ]

\* the arguments of a reverting run: the log at path is its revertLog
RoundTripArgv(path) ==
  [ id : {Undef, Str(ItemId(1))}, name : {Undef}, contentType : {Undef},
    repoId : {Undef, Str(RepoIds[1])}, folderId : {Undef, Str(FolderIds[1])},
    revertLog : {Str(path)}, logFile : {Str(LogPath)}, force : {TRUE},
    silent : {FALSE}, ignoreError : BOOLEAN ]

InitRoundTrip ==
  /\ cmd \in Commands
  /\ argv \in FirstArgv
  /\ run = 1
  /\ status \in InitialStatuses(cmd)
  /\ files = [path \in {} |-> EmptyStr]
  /\ prev = NoPrev
  /\ Entered
  /\ OthersIdle

\* the other command is started on the hub and the files the run left
StartNext ==
  /\ pc = "done"
  /\ run < MaxRuns
  /\ writes # << >>
  /\ prev' = [cmd |-> cmd, succeeded |-> Succeeded, failed |-> Failed,
              path |-> writes[1].path]
  /\ cmd' = OtherCommand(cmd)
  /\ run' = run + 1
  /\ argv' \in RoundTripArgv(writes[1].path)
  /\ pc' = "start"
  /\ exit' = 0
  /\ contentItems' = << >>
  /\ fetched' = << >>
  /\ allContent' = FALSE
  /\ missingContent' = FALSE
  /\ log' = NewLog(EmptyStr)
  /\ i' = 0
  /\ successCount' = 0
  /\ remote' = NoRemote
  /\ prompts' = 0
  /\ asked' = NotAsked
  /\ calls' = << >>
  /\ outstanding' = 0
  /\ results' = << >>
  /\ writes' = << >>
  /\ UNCHANGED << status, files >>
  /\ UNCHANGED otherCommands

NextRoundTrip == Next \/ StartNext

SpecRoundTrip == InitRoundTrip /\ [][NextRoundTrip]_vars


\* ------------------------------------------------------------------------
\* Content-item export: the folder traversal of getContentItems
\* (archive.ts lines 373-423)
\* ------------------------------------------------------------------------

\* line 373: const parallelism = 10
parallelism == 10

\* the folder trees of the model: a folder is the path of indexes that leads
\* to it, a base folder is a path of length 1
Shapes ==
  {[base |-> b, fan |-> 0, depth |-> 1, again |-> FALSE] : b \in 0..MaxBase}
    \cup {[base |-> b, fan |-> n, depth |-> 2, again |-> a] :
            b \in 1..3, n \in 1..MaxFan, a \in BOOLEAN}
    \cup {[base |-> 2, fan |-> 2, depth |-> 3, again |-> FALSE]}

\* line 374: the base folders, in the order of folderIds; with again, the
\* folder ids given name the first subfolder of the first folder as well
BaseFolders(sh) ==
  [b \in 1..sh.base |-> <<b>>] \o (IF sh.again THEN << <<1, 1>> >> ELSE << >>)

\* line 410: paginator(folder.related.folders.list)
Subfolders(sh, f) ==
  IF Len(f) < sh.depth THEN [c \in 1..sh.fan |-> f \o <<c>>] ELSE << >>

InitTraverse ==
  /\ HandlerIdle
  /\ ExportIdle
  /\ TreeIdle
  /\ SchemaIdle
  /\ EventIdle
  /\ shape \in Shapes
  /\ tpc = "start"
  /\ processFolders = << >>
  /\ inFlight = {}
  /\ nextFolders = << >>
  /\ baseFolder = TRUE
  /\ folderItems = {}
  /\ faults = 0
  /\ visits = EmptyBag
  /\ discovered = {}

\* lines 373-381: every base folder is fetched and becomes the first group
GetBaseFolders ==
  /\ tpc = "start"
  /\ processFolders' = BaseFolders(shape)
  /\ baseFolder' = TRUE
  /\ tpc' = "while"
  /\ UNCHANGED << shape, inFlight, nextFolders, folderItems, faults, visits,
                  discovered >>
  /\ UNCHANGED exceptTraverse

\* lines 383-384: while (processFolders.length > 0), and the map that
\* starts the traversal of every folder of the group
StartGroup ==
  /\ tpc = "while"
  /\ IF Len(processFolders) > 0
     THEN /\ inFlight' = inFlight \cup Range(processFolders)
          /\ tpc' = "await"
     ELSE /\ tpc' = "done"
          /\ UNCHANGED inFlight
  /\ UNCHANGED << shape, processFolders, nextFolders, baseFolder, folderItems,
                  faults, visits, discovered >>
  /\ UNCHANGED exceptTraverse

\* lines 385-415: the traversal of one folder comes to its end: its items are
\* listed, then its subfolders; a failed item listing ends it at once
Traverse(f) ==
  /\ tpc = "await"
  /\ f \in inFlight
  /\ inFlight' = inFlight \ {f}
  /\ \E outcome \in {"ok", "itemsFailed", "subfoldersFailed"} :
       /\ outcome # "ok" => faults < MaxFaults
       /\ faults' = IF outcome = "ok" THEN faults ELSE faults + 1
       /\ folderItems' = IF outcome = "itemsFailed" THEN folderItems
                         ELSE folderItems \cup {f}
       /\ nextFolders' =
            IF outcome = "ok" THEN nextFolders \o Subfolders(shape, f)
            ELSE nextFolders
       /\ discovered' =
            IF outcome = "ok" THEN discovered \cup Range(Subfolders(shape, f))
            ELSE discovered
  /\ visits' = visits (+) SetToBag({f})
  /\ UNCHANGED << shape, tpc, processFolders, baseFolder >>
  /\ UNCHANGED exceptTraverse

\* lines 418-421: Promise.all has settled; the next group is cut from the
\* front of nextFolders
NextGroup ==
  /\ tpc = "await"
  /\ inFlight = {}
  /\ baseFolder' = FALSE
  /\ LET n == IF Len(nextFolders) < parallelism THEN Len(nextFolders)
              ELSE parallelism
     IN  /\ processFolders' = SubSeq(nextFolders, 1, n)
         /\ nextFolders' = SubSeq(nextFolders, n + 1, Len(nextFolders))
  /\ tpc' = "while"
  /\ UNCHANGED << shape, inFlight, folderItems, faults, visits, discovered >>
  /\ UNCHANGED exceptTraverse

NextTraverse ==
  \/ GetBaseFolders
  \/ StartGroup
  \/ \E f \in inFlight : Traverse(f)
  \/ NextGroup

SpecTraverse == InitTraverse /\ [][NextTraverse]_vars

\* ------------------------------------------------------------------------
\* Content-item export: missing dependencies and saving
\* (archive.ts lines 453-531)
\* ------------------------------------------------------------------------

\* the items of the hub are 1..NumExportItems; Ghost is an id that names no
\* item
ExportItems == 1..NumExportItems
Ghost == NumExportItems + 1

\* item.label: the first two items have the same label
ExportLabel(k) == IF k <= 2 THEN <<"a">> ELSE <<"item", ToString(k)>>

\* the elements of a set of numbers, in ascending order
RECURSIVE Ascending(_)
Ascending(S) ==
  IF S = {} THEN << >>
  ELSE LET m == CHOOSE x \in S : \A y \in S : x <= y
       IN  <<m>> \o Ascending(S \ {m})

\* the references of the body of item k, in the order of the body: an item
\* refers to at most MaxRefs ids, of later items or of no item
RefChoices(k) ==
  {Ascending(T) : T \in {U \in SUBSET ((k + 1)..Ghost) : Cardinality(U) <= MaxRefs}}

\* the hubs of the model: every item but the last one is ACTIVE
Hubs ==
  { [refs |-> r, status |-> [k \in ExportItems |->
                               IF k = NumExportItems THEN st ELSE "ACTIVE"]] :
      r \in {f \in [ExportItems -> UNION {RefChoices(k) : k \in ExportItems}] :
               \A k \in ExportItems : f[k] \in RefChoices(k)},
      st \in {"ACTIVE", "ARCHIVED"} }

\* the path of the items added as dependencies (line 483)
DependanciesPath == <<"_dependancies/">>

\* the path of the items found by getContentItems: the base directory
BasePath == <<"">>

\* one line of the FileLog
Line(msg, about) == [msg |-> msg, about |-> about]

\* ContentDependancyTree.byId.has(id): the ids of the items given to the tree
byIdHas(its, id) == \E k \in 1..Len(its) : its[k].item = id

\* Set.add for each id of a list, in order
RECURSIVE AddAll(_, _)
AddAll(acc, ids) ==
  IF ids = << >> THEN acc
  ELSE AddAll(IF InSeq(Head(ids), acc) THEN acc ELSE Append(acc, Head(ids)),
              Tail(ids))

\* lines 460-468: the predicate given to filterAny, applied to one node: the
\* dependencies of the item that byId does not have
missingDeps(h, its, k) ==
  SelectIdx(h.refs[its[k].item], 1,
    [d \in 1..Len(h.refs[its[k].item]) |-> ~byIdHas(its, h.refs[its[k].item][d])])

\* tree.filterAny: the predicate is applied to every node of the tree, in
\* input order; missingIDs collects what it finds
RECURSIVE CollectMissing(_, _, _, _)
CollectMissing(h, its, k, acc) ==
  IF k > Len(its) THEN acc
  ELSE CollectMissing(h, its, k + 1, AddAll(acc, missingDeps(h, its, k)))

InitExport ==
  /\ HandlerIdle
  /\ TraverseIdle
  /\ TreeIdle
  /\ SchemaIdle
  /\ EventIdle
  /\ hub \in Hubs
  /\ \E n \in 0..NumExportItems :
       /\ \A k \in 1..n : hub.status[k] = "ACTIVE"
       /\ selected = [k \in 1..n |-> k]
  /\ epc = "scan"
  /\ exportItems = [k \in 1..Len(selected) |-> [item |-> selected[k], path |-> BasePath]]
  /\ missingIdArray = << >>
  /\ mi = 0
  /\ fetches = << >>
  /\ elog = << >>
  /\ filenames = << >>
  /\ written = << >>
  /\ wi = 0

\* lines 453-468: the tree is built and scanned for dependencies that are
\* not part of it
ScanDependencies ==
  /\ epc = "scan"
  /\ missingIdArray' = CollectMissing(hub, exportItems, 1, << >>)
  /\ elog' = Append(elog, Line("scanning", << >>))
  /\ epc' = "missing"
  /\ UNCHANGED << hub, selected, exportItems, mi, fetches, filenames, written, wi >>
  /\ UNCHANGED exceptExport

\* variant of line 481: the status of the fetched item is not looked at
Included_any(st) == TRUE

\* line 481: if (item.status === 'ACTIVE')
Included(st) == st = "ACTIVE"

\* lines 470-495: one missing id is fetched; the item is added, or a line
\* says why it is not
FetchMissing ==
  /\ epc = "missing"
  /\ IF mi < Len(missingIdArray)
     THEN LET id == missingIdArray[mi + 1]
          IN  \E ok \in BOOLEAN :
                LET found == ok /\ id \in ExportItems
                IN  /\ fetches' = Append(fetches, [id |-> id, found |-> found])
                    /\ IF found
                       THEN IF Included(hub.status[id])
                            THEN /\ exportItems' =
                                      Append(exportItems,
                                             [item |-> id, path |-> DependanciesPath])
                                 /\ elog' = Append(elog, Line("added", ExportLabel(id)))
                            ELSE /\ elog' = Append(elog, Line("archived", ExportLabel(id)))
                                 /\ UNCHANGED exportItems
                       ELSE /\ elog' = Append(elog, Line("does not exist", <<id>>))
                            /\ UNCHANGED exportItems
                    /\ mi' = mi + 1
                    /\ UNCHANGED epc
     ELSE /\ epc' = "schemas"
          /\ elog' = Append(elog, Line("saving", << >>))
          /\ UNCHANGED << exportItems, mi, fetches >>
  /\ UNCHANGED << hub, selected, missingIdArray, filenames, written, wi >>
  /\ UNCHANGED exceptExport

\* lines 500-502: the schemas are listed for the validator; nothing catches
\* a failure of the listing
ListSchemas ==
  /\ epc = "schemas"
  /\ \E ok \in BOOLEAN : epc' = IF ok THEN "save" ELSE "threw"
  /\ UNCHANGED << hub, selected, exportItems, missingIdArray, mi, fetches, elog,
                  filenames, written, wi >>
  /\ UNCHANGED exceptExport

\* a file path: directory, name and the counter that makes it unique
FilePath(directory, name, n) == [dir |-> directory, name |-> name, n |-> n]

\* uniqueFilenamePath(dir, name, ext, exportFilenames): the name itself, or
\* the name with the first counter that gives a path not yet taken
uniqueFilenamePath(directory, name, taken) ==
  FilePath(directory, name,
    CHOOSE n \in 0..Len(taken) :
      /\ ~InSeq(FilePath(directory, name, n), taken)
      /\ \A m \in 0..(n - 1) : InSeq(FilePath(directory, name, m), taken))

\* variant of line 524: the path given to an item is not remembered
push_forgotten(names, path) == names

\* line 524: filenames.push(resolvedPath)
push(names, path) == Append(names, path)

\* lines 507-517: what the validation of an item adds to the log
ValidationLines(outcome, label) ==
  CASE outcome = "valid" -> << >>
    [] outcome = "errors" -> << Line("invalid", label), Line("errors", label) >>
    [] outcome = "throws" -> << Line("not validated", label) >>

\* lines 504-529: one item is validated, given a path and written
SaveItem ==
  /\ epc = "save"
  /\ IF wi < Len(exportItems)
     THEN LET it == exportItems[wi + 1]
              resolvedPath == uniqueFilenamePath(it.path, ExportLabel(it.item), filenames)
          IN  /\ \E outcome \in {"valid", "errors", "throws"} :
                   elog' = elog \o ValidationLines(outcome, ExportLabel(it.item))
                                \o << Line("path", resolvedPath) >>
              /\ filenames' = push(filenames, resolvedPath)
              /\ written' = Append(written, [path |-> resolvedPath, item |-> it.item])
              /\ wi' = wi + 1
              /\ UNCHANGED epc
     ELSE /\ epc' = "done"
          /\ UNCHANGED << elog, filenames, written, wi >>
  /\ UNCHANGED << hub, selected, exportItems, missingIdArray, mi, fetches >>
  /\ UNCHANGED exceptExport

NextExport ==
  \/ ScanDependencies
  \/ FetchMissing
  \/ ListSchemas
  \/ SaveItem

SpecExport == InitExport /\ [][NextExport]_vars

\* ------------------------------------------------------------------------
\* Content dependency tree: traverseDependencyOrder
\* ------------------------------------------------------------------------

\* the trees of the model: items 1..n in input order, and the references
\* between them as pairs of a dependent and its dependency
Graphs ==
  UNION { {[n |-> k, refs |-> E] :
             E \in {F \in SUBSET ((1..k) \X (1..k)) : Cardinality(F) <= MaxEdges}} :
          k \in 1..MaxNodes }

\* the dependencies of an item
Deps(g, a) == {b \in 1..g.n : <<a, b>> \in g.refs}

\* the items among rem that a chain of references starting in S leads to
RECURSIVE Closure(_, _, _)
Closure(g, rem, S) ==
  LET T == S \cup {b \in rem : \E a \in S : <<a, b>> \in g.refs}
  IN  IF T = S THEN S ELSE Closure(g, rem, T)

\* the items among rem that item a depends on, directly or not
ReachFrom(g, rem, a) == Closure(g, rem, Deps(g, a) \cap rem)

\* the items that lie on a cycle with item a (none when a is on no cycle)
CycleGroup(g, rem, a) ==
  {b \in rem : b \in ReachFrom(g, rem, a) /\ a \in ReachFrom(g, rem, b)}

\* the items already in a batch
Placed(bs) == UNION {Range(bs[k]) : k \in 1..Len(bs)}

\* variant: the dependencies of an item are not looked at
Ready_any(g, placed, a) == TRUE

\* an item can be placed once each of its dependencies is in an earlier batch
Ready(g, placed, a) == Deps(g, a) \subseteq placed

\* variant: a blocked traversal goes on with the first item left
CycleBatch_first(g, rem, placed) ==
  <<CHOOSE a \in rem : \A b \in rem : a <= b>>

\* no item is ready: the first cycle whose other dependencies are all placed
\* becomes one batch, in input order
CycleBatch(g, rem, placed) ==
  LET closed == {a \in rem :
                   /\ CycleGroup(g, rem, a) # {}
                   /\ \A b \in CycleGroup(g, rem, a) :
                        Deps(g, b) \subseteq placed \cup CycleGroup(g, rem, a)}
      first == CHOOSE a \in closed : \A b \in closed : a <= b
  IN  Ascending(CycleGroup(g, rem, first))

\* the next batch: every item that is ready, in input order, or a cycle
NextBatch(g, bs) ==
  LET placed == Placed(bs)
      rem == (1..g.n) \ placed
      ready == {a \in rem : Ready(g, placed, a)}
  IN  IF ready # {} THEN Ascending(ready) ELSE CycleBatch(g, rem, placed)

InitTree ==
  /\ HandlerIdle
  /\ TraverseIdle
  /\ ExportIdle
  /\ SchemaIdle
  /\ EventIdle
  /\ graph \in Graphs
  /\ batches = << >>
  /\ tdone = FALSE

\* traverseDependencyOrder, one batch at a time
EmitBatch ==
  /\ ~tdone
  /\ IF Placed(batches) = 1..graph.n
     THEN /\ tdone' = TRUE
          /\ UNCHANGED batches
     ELSE /\ batches' = Append(batches, NextBatch(graph, batches))
          /\ UNCHANGED tdone
  /\ UNCHANGED graph
  /\ UNCHANGED exceptTree

NextTree == EmitBatch

SpecTree == InitTree /\ [][NextTree]_vars

\* ------------------------------------------------------------------------
\* Content-type-schema export (commands/content-type-schema/export.ts, as
\* its tests in export.spec.ts and the synchronizer of the description
\* have it)
\* ------------------------------------------------------------------------

SchemaIds == {"schema-id-1", "schema-id-2"}
Bodies == {"body", "updated body"}

\* a schema: its business key and its body
Schemas == [schemaId : SchemaIds, body : Bodies]

\* the previous exports of the model: file k of the directory holds a schema
PrevExports ==
  UNION { {[k \in 1..n |-> [filename |-> k, schemaId |-> f[k].schemaId,
                            body |-> f[k].body]] : f \in [1..n -> Schemas]} :
          n \in 0..MaxPrev }

\* the lists of schemas to export
EntityLists == UNION {[1..n -> Schemas] : n \in 0..MaxEntities}

\* uniqueFilename(dir, 'json'): some filename that no file of the directory
\* has; which one is not determined by its arguments
FreshNames(previous) == (Len(previous) + 1)..(Len(previous) + NumFresh)

\* findIndex(c => c.schemaId === contentTypeSchema.schemaId): 0 for none
IndexOfExported(entity, previous) ==
  IF \E k \in 1..Len(previous) : previous[k].schemaId = entity.schemaId
  THEN CHOOSE k \in 1..Len(previous) :
         /\ previous[k].schemaId = entity.schemaId
         /\ \A j \in 1..(k - 1) : previous[j].schemaId # entity.schemaId
  ELSE 0

\* variant: the bodies are not compared
Unchanged_never(exported, entity) == FALSE

\* the exported schema and the one being exported are identical
Unchanged(exported, entity) == exported.body = entity.body

\* getExportRecordForContentTypeSchema; fresh is what uniqueFilename
\* returns if it is called
getExportRecordForContentTypeSchema(entity, previous, fresh) ==
  LET idx == IndexOfExported(entity, previous)
  IN  IF idx = 0
      THEN [filename |-> fresh, status |-> "CREATED", schema |-> entity]
      ELSE IF Unchanged(previous[idx], entity)
      THEN [filename |-> previous[idx].filename, status |-> "UP-TO-DATE",
            schema |-> entity]
      ELSE [filename |-> previous[idx].filename, status |-> "UPDATED",
            schema |-> entity]

\* the function is called on a schema, and called again on the same inputs
InitExportRecord ==
  /\ HandlerIdle
  /\ TraverseIdle
  /\ ExportIdle
  /\ TreeIdle
  /\ EventIdle
  /\ prevExports \in PrevExports
  /\ entities \in {l \in EntityLists : Len(l) = 1}
  /\ records = << >>
  /\ allocs = << >>
  /\ spc = "call"
  /\ sprompts = << >>
  /\ swritten = << >>
  /\ rows = << >>
  /\ sexit = -1

\* one call of getExportRecordForContentTypeSchema on the next schema, with
\* the call of uniqueFilename it makes
GetRecord(entity) ==
  \E fresh \in FreshNames(prevExports) :
    LET rec == getExportRecordForContentTypeSchema(entity, prevExports, fresh)
    IN  /\ records' = Append(records, rec)
        /\ allocs' = IF rec.status = "CREATED" THEN Append(allocs, fresh)
                     ELSE allocs

CallRecord ==
  /\ spc = "call"
  /\ Len(records) < MaxCalls
  /\ GetRecord(entities[1])
  /\ UNCHANGED << prevExports, entities, spc, sprompts, swritten, rows, sexit >>
  /\ UNCHANGED exceptSchema

NextExportRecord == CallRecord

SpecExportRecord == InitExportRecord /\ [][NextExportRecord]_vars

\* processContentTypeSchemas(outputDir, previouslyExported, schemas)
InitSchemaExport ==
  /\ HandlerIdle
  /\ TraverseIdle
  /\ ExportIdle
  /\ TreeIdle
  /\ EventIdle
  /\ prevExports \in PrevExports
  /\ entities \in EntityLists
  /\ records = << >>
  /\ allocs = << >>
  /\ spc = "records"
  /\ sprompts = << >>
  /\ swritten = << >>
  /\ rows = << >>
  /\ sexit = -1

\* getContentTypeSchemaExports: one export record per schema, in order
ExportRecords ==
  /\ spc = "records"
  /\ IF Len(records) < Len(entities)
     THEN /\ GetRecord(entities[Len(records) + 1])
          /\ UNCHANGED spc
     ELSE /\ spc' = "prompt"
          /\ UNCHANGED << records, allocs >>
  /\ UNCHANGED << prevExports, entities, sprompts, swritten, rows, sexit >>
  /\ UNCHANGED exceptSchema

\* the records that overwrite a file of a previous export
UpdatedExports(recs) == {k \in 1..Len(recs) : recs[k].status = "UPDATED"}

\* variant: the answer to the prompt is not looked at
Aborts_never(answer) == FALSE

\* the command is given up when the user does not agree to overwrite
Aborts(answer) == ~answer

\* promptToOverwriteExports, asked once when some record is UPDATED;
\* declining ends the process
Prompt ==
  /\ spc = "prompt"
  /\ IF UpdatedExports(records) # {}
     THEN \E answer \in BOOLEAN :
            /\ sprompts' = Append(sprompts, answer)
            /\ IF Aborts(answer)
               THEN /\ sexit' = 1
                    /\ spc' = "exited"
               ELSE /\ spc' = "header"
                    /\ UNCHANGED sexit
     ELSE /\ spc' = "header"
          /\ UNCHANGED << sprompts, sexit >>
  /\ UNCHANGED << prevExports, entities, records, allocs, swritten, rows >>
  /\ UNCHANGED exceptSchema

\* the table stream is created and its header row written
WriteHeader ==
  /\ spc = "header"
  /\ rows' = << [filename |-> 0, schemaId |-> "Schema ID", status |-> "Result"] >>
  /\ spc' = "write"
  /\ UNCHANGED << prevExports, entities, records, allocs, sprompts, swritten,
                  sexit >>
  /\ UNCHANGED exceptSchema

\* variant: every record's file is written again
WritesFile_always(st) == TRUE

\* a record's file is written unless the record is up to date
WritesFile(st) == st # "UP-TO-DATE"

\* one record: its file is written unless it is up to date, and its row is
\* written to the table
WriteRecord ==
  /\ spc = "write"
  /\ IF Len(rows) <= Len(records)
     THEN LET rec == records[Len(rows)]
          IN  /\ swritten' = IF WritesFile(rec.status)
                             THEN Append(swritten, rec.filename) ELSE swritten
              /\ rows' = Append(rows, [filename |-> rec.filename,
                                       schemaId |-> rec.schema.schemaId,
                                       status |-> rec.status])
              /\ UNCHANGED spc
     ELSE /\ spc' = "done"
          /\ UNCHANGED << swritten, rows >>
  /\ UNCHANGED << prevExports, entities, records, allocs, sprompts, sexit >>
  /\ UNCHANGED exceptSchema

NextSchemaExport ==
  \/ ExportRecords
  \/ Prompt
  \/ WriteHeader
  \/ WriteRecord

SpecSchemaExport == InitSchemaExport /\ [][NextSchemaExport]_vars

\* ------------------------------------------------------------------------
\* Event archive (commands/event/archive.ts)
\* ------------------------------------------------------------------------

\* the publishing statuses the handler names, and one that stands for any
\* other value
PublishingStatuses ==
  << "DRAFT", "UNSCHEDULING", "SCHEDULED", "SCHEDULING", "PUBLISHED",
     "PUBLISHING", "OTHER" >>

\* the kinds of edition the lists of lines 153-161 are computed for: every
\* status, with and without the link its call needs
AllKinds ==
  [k \in 1..(2 * Len(PublishingStatuses)) |->
     [status |-> PublishingStatuses[((k - 1) % Len(PublishingStatuses)) + 1],
      link |-> k <= Len(PublishingStatuses)]]

\* the kinds of edition of the runs of the handler
HandlerKinds ==
  << [status |-> "DRAFT", link |-> TRUE],
     [status |-> "SCHEDULED", link |-> TRUE],
     [status |-> "SCHEDULED", link |-> FALSE],
     [status |-> "PUBLISHED", link |-> TRUE] >>

\* the lists of editions of one event: at most MaxEditions of them, listed
\* kind by kind; n tells the editions of one event apart
EditionLists(kinds) ==
  { [j \in 1..Len(f) |-> [n |-> j, status |-> kinds[f[j]].status,
                          link |-> kinds[f[j]].link]] :
      f \in { g \in UNION {[1..n -> 1..Len(kinds)] : n \in 0..MaxEditions} :
                \A a, b \in 1..Len(g) : a < b => g[a] <= g[b] } }

\* lines 105-114 and 125-132: an event as it is first recorded
NewEvent(id, eds) ==
  [id |-> id, editions |-> eds, command |-> <<"ARCHIVE">>,
   unscheduleEditions |-> << >>, deleteEditions |-> << >>,
   archiveEditions |-> << >>]

\* the number of editions of a list of lists of editions
RECURSIVE Total(_)
Total(f) == IF f = << >> THEN 0 ELSE Len(Head(f)) + Total(Tail(f))

\* the lists of events of the runs of the handler, none of them empty, with
\* at most MaxEditions editions in all
EventLists ==
  { [k \in 1..Len(f) |-> NewEvent(k, f[k])] :
      f \in { g \in UNION {[1..n -> EditionLists(HandlerKinds)] :
                             n \in 1..MaxEvents} : Total(g) <= MaxEditions } }

\* Array.filter on the publishing status
WithStatus(eds, sts) ==
  SelectIdx(eds, 1, [j \in 1..Len(eds) |-> eds[j].status \in sts])

\* variant of line 163: only the draft editions are counted
AllDeletable_draftsOnly(d, u, e) == Len(d) = Len(e)

\* line 163: deleteEditions.length + unscheduleEditions.length ===
\* editions.length
AllDeletable(d, u, e) == Len(d) + Len(u) = Len(e)

\* lines 153-165: the three lists and the command of one event
Classified(e) ==
  LET d == WithStatus(e.editions, {"DRAFT", "UNSCHEDULING"})
      u == WithStatus(e.editions, {"SCHEDULED", "SCHEDULING"})
      a == WithStatus(e.editions, {"PUBLISHED", "PUBLISHING"})
  IN  [e EXCEPT !.deleteEditions = d,
                !.unscheduleEditions = u,
                !.archiveEditions = a,
                !.command = IF AllDeletable(d, u, e.editions)
                            THEN <<"DELETE">> ELSE @]

\* the limit of the loop of line 66
Limit == 200

\* line 68: event._links && event._links[resource]
Found_never(r) == FALSE

Found(r) == r = "link"

\* lines 66-72: the turns of the loop at which it is left: the fetch throws,
\* or the link is found and the loop is broken; resp[n] is what the n-th
\* fetch of the event gives
LeavesAt(resp) ==
  {n \in 1..Limit : resp[n] = "throws" \/ Found(resp[n])}

\* lines 64-74: the loop is left at the first such turn, or runs to its
\* limit and gives nothing
getEventUntilSuccess(resp) ==
  IF LeavesAt(resp) = {}
  THEN [result |-> "nothing", fetches |-> Limit]
  ELSE LET n == CHOOSE x \in LeavesAt(resp) : \A y \in LeavesAt(resp) : x <= y
       IN  [result |-> IF resp[n] = "throws" THEN "threw" ELSE "link",
            fetches |-> n]

\* what the remote answers to the fetches: nothing of note before the
\* fetch numbered at, then what, then after; two fetches more than the
\* limit are described
Responses ==
  { [n \in 1..(Limit + 2) |->
       IF n < at THEN "none" ELSE IF n = at THEN what ELSE after] :
      at \in 1..(Limit + 2), what \in {"link", "throws"},
      after \in {"none", "link"} }

\* the answers the handler meets: the link at once, after a while, never,
\* and a fetch that fails
HandlerResponses ==
  { r \in Responses :
      \/ r[1] = "link" /\ r[2] = "link"
      \/ r[1] = "none" /\ r[3] = "link" /\ r[4] = "link"
      \/ r[Limit + 1] = "link" /\ r[Limit + 2] = "link" /\ r[Limit] = "none"
      \/ r[1] = "throws" /\ r[2] = "none" }

\* a remote call: on an edition of an event, or on the event itself
\* (edition 0)
Call(ev, kind, ed) == [event |-> ev, kind |-> kind, edition |-> ed]

\* lines 201-204, 209-212, 216-221: the calls of one Promise.all, one for
\* each edition of the list that carries the link
CallsFor(ev, kind, eds) ==
  { Call(ev, kind, eds[j].n) : j \in {x \in 1..Len(eds) : eds[x].link} }

\* what is recorded of a call
Step(op, c) == [op |-> op, kind |-> c.kind, edition |-> c.edition]

\* the calls of a set are issued, in the order of their editions
RECURSIVE Issued(_, _)
Issued(tr, cs) ==
  IF cs = {} THEN tr
  ELSE LET c == CHOOSE x \in cs : \A y \in cs : x.edition <= y.edition
       IN  Issued(Append(tr, Step("issue", c)), cs \ {c})

\* variant: Promise.all is not waited for
Resolved_atOnce(waiting) == TRUE

\* await Promise.all (lines 200, 208, 215) and the awaits of lines 237 and
\* 241: the handler goes on when every call waited for has succeeded
Resolved(waiting) == waiting = {}

\* lines 232-233: the link did not appear
NoAccessComments(l, e) ==
  addComment(addComment(l, e.command \o <<SP, "FAILED:", SP>> \o ItemId(e.id)),
             <<"You don't have access to perform this action">>)

\* lines 246-247: a call of the event failed
CatchComments(l, e) ==
  addComment(addComment(l, e.command \o <<SP, "FAILED:", SP>> \o ItemId(e.id)),
             <<"Error">>)

\* lines 238-239 and 242-243: the event is recorded and counted
RecordEvent(l, e) == addAction(l, e.command, ItemId(e.id) \o <<NL>>)

InitEvent ==
  /\ HandlerIdle
  /\ TraverseIdle
  /\ ExportIdle
  /\ TreeIdle
  /\ SchemaIdle
  /\ events = << >>
  /\ vpc = "start"
  /\ vexit = 0
  /\ vi = 0
  /\ vlog = NewLog(EmptyStr)
  /\ vcount = 0
  /\ pending = {}
  /\ awaited = {}
  /\ trace = << >>
  /\ called = {}
  /\ responses = << >>
  /\ got = << >>

\* lines 91-150: the events are fetched, by id or by listing the hub; the
\* handler returns when neither id nor name is given (97), when a fetch
\* fails (117, 138) and when nothing is found (149)
FetchEvents ==
  /\ vpc = "start"
  /\ \/ \E line \in {97, 117, 138, 149} :
          /\ vexit' = line
          /\ vpc' = "ended"
          /\ UNCHANGED events
     \/ /\ events' \in EventLists
        /\ vpc' = "classify"
        /\ UNCHANGED vexit
  /\ UNCHANGED << vi, vlog, vcount, pending, awaited, trace, called,
                  responses, got >>
  /\ UNCHANGED exceptEvent

\* lines 152-166: the lists and the command of every event
Classify ==
  /\ vpc = "classify"
  /\ events' = [k \in 1..Len(events) |-> Classified(events[k])]
  /\ vpc' = "confirm"
  /\ UNCHANGED << vexit, vi, vlog, vcount, pending, awaited, trace, called,
                  responses, got >>
  /\ UNCHANGED exceptEvent

\* lines 186-196: the confirmation, unless forced, and the new log
ConfirmEvents ==
  /\ vpc = "confirm"
  /\ \E force \in BOOLEAN, yes \in BOOLEAN :
       IF ~force /\ ~yes
       THEN /\ vexit' = 189
            /\ vpc' = "ended"
            /\ UNCHANGED vlog
       ELSE /\ vlog' = NewLog(<<"Events Archive Log">>)
            /\ vpc' = "loop"
            /\ UNCHANGED vexit
  /\ UNCHANGED << events, vi, vcount, pending, awaited, trace, called,
                  responses, got >>
  /\ UNCHANGED exceptEvent

\* the calls of a set are issued and waited for
IssueAll(cs, at) ==
  /\ pending' = pending \cup cs
  /\ awaited' = cs
  /\ vpc' = at

\* lines 198-205: the loop test; the scheduled editions of the next event
\* are unscheduled, all at once
IssueUnschedule ==
  /\ vpc = "loop"
  /\ IF vi < Len(events)
     THEN LET cs == CallsFor(vi + 1, "unschedule",
                             events[vi + 1].unscheduleEditions)
          IN  /\ vi' = vi + 1
              /\ trace' = Issued(<< >>, cs)
              /\ IssueAll(cs, "unscheduling")
     ELSE /\ vpc' = "write"
          /\ UNCHANGED << vi, trace, pending, awaited >>
  /\ UNCHANGED << events, vexit, vlog, vcount, called, responses, got >>
  /\ UNCHANGED exceptEvent

\* lines 207-213: for an ARCHIVE event the draft editions are deleted
IssueDeletes ==
  /\ vpc = "unscheduling"
  /\ Resolved(awaited)
  /\ IF events[vi].command = <<"ARCHIVE">>
     THEN LET cs == CallsFor(vi, "delete", events[vi].deleteEditions)
          IN  /\ trace' = Issued(trace, cs)
              /\ IssueAll(cs, "deleting")
     ELSE /\ vpc' = "fetch"
          /\ UNCHANGED << trace, pending, awaited >>
  /\ UNCHANGED << events, vexit, vi, vlog, vcount, called, responses, got >>
  /\ UNCHANGED exceptEvent

\* lines 215-222: then the published editions are archived
IssueArchives ==
  /\ vpc = "deleting"
  /\ Resolved(awaited)
  /\ LET cs == CallsFor(vi, "archive", events[vi].archiveEditions)
     IN  /\ trace' = Issued(trace, cs)
         /\ IssueAll(cs, "archiving")
  /\ UNCHANGED << events, vexit, vi, vlog, vcount, called, responses, got >>
  /\ UNCHANGED exceptEvent

\* line 223: the editions are done with
EditionsDone ==
  /\ vpc = "archiving"
  /\ Resolved(awaited)
  /\ vpc' = "fetch"
  /\ UNCHANGED << events, vexit, vi, vlog, vcount, pending, awaited, trace,
                  called, responses, got >>
  /\ UNCHANGED exceptEvent

\* lines 225-244 and 245-248: the link of the command is asked for. With
\* the link the call on the event is issued; without it two comments are
\* added, no call is made, and the event is recorded and counted all the
\* same; a fetch that fails is caught
GetResource ==
  /\ vpc = "fetch"
  /\ \E resp \in HandlerResponses :
       LET resource == getEventUntilSuccess(resp)
           c == Call(vi, "event", 0)
       IN  CASE resource.result = "link" ->
                  /\ trace' = Append(trace, Step("issue", c))
                  /\ IssueAll({c}, "eventcall")
                  /\ UNCHANGED << vlog, vcount >>
             [] resource.result = "nothing" ->
                  /\ vlog' = RecordEvent(NoAccessComments(vlog, events[vi]),
                                         events[vi])
                  /\ vcount' = vcount + 1
                  /\ vpc' = "loop"
                  /\ UNCHANGED << trace, pending, awaited >>
             [] resource.result = "threw" ->
                  /\ vlog' = CatchComments(vlog, events[vi])
                  /\ vpc' = "loop"
                  /\ UNCHANGED << vcount, trace, pending, awaited >>
  /\ UNCHANGED << events, vexit, vi, called, responses, got >>
  /\ UNCHANGED exceptEvent

\* lines 238-239 and 242-243: the call on the event has succeeded
EventDone ==
  /\ vpc = "eventcall"
  /\ Resolved(awaited)
  /\ vlog' = RecordEvent(vlog, events[vi])
  /\ vcount' = vcount + 1
  /\ vpc' = "loop"
  /\ UNCHANGED << events, vexit, vi, pending, awaited, trace, called,
                  responses, got >>
  /\ UNCHANGED exceptEvent

\* a remote call completes. A call that is waited for and fails rejects the
\* Promise.all it is part of: the catch of lines 245-248 runs and the loop
\* goes on with the next event, whatever calls are still under way
CompleteCall ==
  \E c \in pending, ok \in BOOLEAN :
    /\ pending' = pending \ {c}
    /\ trace' = IF c.event = vi
                THEN Append(trace, Step(IF ok THEN "ok" ELSE "fail", c))
                ELSE trace
    /\ called' = IF ok /\ c.kind = "event" THEN called \cup {c.event}
                 ELSE called
    /\ IF c \in awaited
       THEN IF ok
            THEN /\ awaited' = awaited \ {c}
                 /\ UNCHANGED << vlog, vpc >>
            ELSE /\ awaited' = {}
                 /\ vlog' = CatchComments(vlog, events[vi])
                 /\ vpc' = "loop"
       ELSE UNCHANGED << awaited, vlog, vpc >>
    /\ UNCHANGED << events, vexit, vi, vcount, responses, got >>
    /\ UNCHANGED exceptEvent

\* lines 251-256: the log is written unless silent, and the total is shown
WriteEventLog ==
  /\ vpc = "write"
  /\ vpc' = "ended"
  /\ vexit' = 256
  /\ UNCHANGED << events, vi, vlog, vcount, pending, awaited, trace, called,
                  responses, got >>
  /\ UNCHANGED exceptEvent

NextEvent ==
  \/ FetchEvents
  \/ Classify
  \/ ConfirmEvents
  \/ IssueUnschedule
  \/ IssueDeletes
  \/ IssueArchives
  \/ EditionsDone
  \/ GetResource
  \/ EventDone
  \/ CompleteCall
  \/ WriteEventLog

SpecEvent == InitEvent /\ [][NextEvent]_vars

\* the lists of lines 153-161 and the command of line 163, for one event
\* with editions of any status
InitClassify ==
  /\ HandlerIdle
  /\ TraverseIdle
  /\ ExportIdle
  /\ TreeIdle
  /\ SchemaIdle
  /\ \E eds \in EditionLists(AllKinds) : events = << NewEvent(1, eds) >>
  /\ vpc = "classify"
  /\ vexit = 0
  /\ vi = 0
  /\ vlog = NewLog(EmptyStr)
  /\ vcount = 0
  /\ pending = {}
  /\ awaited = {}
  /\ trace = << >>
  /\ called = {}
  /\ responses = << >>
  /\ got = << >>

SpecClassify == InitClassify /\ [][Classify]_vars

\* getEventUntilSuccess on its own
InitUntilSuccess ==
  /\ HandlerIdle
  /\ TraverseIdle
  /\ ExportIdle
  /\ TreeIdle
  /\ SchemaIdle
  /\ events = << >>
  /\ vpc = "call"
  /\ vexit = 0
  /\ vi = 0
  /\ vlog = NewLog(EmptyStr)
  /\ vcount = 0
  /\ pending = {}
  /\ awaited = {}
  /\ trace = << >>
  /\ called = {}
  /\ responses \in Responses
  /\ got = << >>

\* one call of getEventUntilSuccess
CallUntilSuccess ==
  /\ vpc = "call"
  /\ got' = << getEventUntilSuccess(responses) >>
  /\ vpc' = "returned"
  /\ UNCHANGED << events, vexit, vi, vlog, vcount, pending, awaited, trace,
                  called, responses >>
  /\ UNCHANGED exceptEvent

SpecUntilSuccess == InitUntilSuccess /\ [][CallUntilSuccess]_vars

\* ------------------------------------------------------------------------
\* Properties
\* ------------------------------------------------------------------------

\* the positions of the calls that failed
FailedAt == {k \in 1..Len(results) : results[k] = "failed"}

\* C1: when ignoreError is not set, the first call that fails ends the loop:
\* no call is made for an item that comes after the failing one in the list.
C1_FirstFailureEndsLoop ==
  ~argv.ignoreError =>
    \A k \in FailedAt :
      /\ Len(calls) = k
      /\ calls = SubSeq(contentItems, 1, k)
      /\ pc \in {"write", "done"}

\* a run without ignoreError that failed on an item and left later items of
\* the list without a call
C1_Witness ==
  /\ ~argv.ignoreError
  /\ pc = "done"
  /\ FailedAt # {}
  /\ Len(calls) < Len(contentItems)

\* C2: when ignoreError is set, every entry of the selected list receives
\* exactly one call, in list order, however many of the calls fail.
C2_IgnoreErrorAttemptsAll ==
  argv.ignoreError =>
    /\ calls = SubSeq(contentItems, 1, Len(calls))
    /\ Len(calls) \in {i, i + 1}
    /\ (pc \in {"write", "done"} => calls = contentItems)

\* a complete run with ignoreError in which two calls failed, the first one
\* included, and a later one succeeded
C2_Witness ==
  /\ argv.ignoreError
  /\ pc = "done"
  /\ Cardinality(FailedAt) >= 2
  /\ 1 \in FailedAt
  /\ \E k \in 1..Len(results) : results[k] = "ok"
  /\ calls = contentItems

\* C3: when force is not set and the confirmation is not answered with yes,
\* no call is made on any item and no log file is written.
C3_DeclineDoesNothing ==
  (~argv.force /\ asked.done /\ ~asked.yes) =>
    /\ calls = << >>
    /\ writes = << >>
    /\ exit = 183
    /\ status \in InitialStatuses(cmd)
    /\ files \in InitialFiles

\* a run that selected items, asked, was answered no and ended, although its
\* arguments ask for a log file
C3_Witness ==
  /\ ~argv.force
  /\ asked.done /\ ~asked.yes
  /\ pc = "ended"
  /\ Len(contentItems) >= 2
  /\ WritesLog(argv.silent, argv.logFile)

\* the run has its selection: the list is the one that will be processed
SelectionMade ==
  \/ pc \in {"check", "confirm", "loop", "await", "write", "done"}
  \/ exit \in {171, 183}

\* the calls made stopped at a failure that ended the loop
StoppedAtFailure ==
  /\ ~argv.ignoreError
  /\ Len(calls) \in FailedAt
  /\ calls = SubSeq(contentItems, 1, Len(calls))

\* C4 as stated: when force is set, no confirmation is requested and the
\* command goes on to attempt every selected item.
C4_Original ==
  argv.force =>
    /\ prompts = 0
    /\ exit # 183
    /\ (pc = "done" => calls = contentItems)

\* C4 as amended: when force is set, no confirmation is requested and the
\* command goes on to the loop, where every selected item is attempted unless
\* a call fails while ignoreError is not set, which ends the loop there.
C4_ForceSkipsPrompt ==
  argv.force =>
    /\ prompts = 0
    /\ ~asked.done
    /\ exit # 183
    /\ (pc = "done" =>
          /\ Len(calls) >= 1
          /\ (calls = contentItems \/ StoppedAtFailure))

\* a forced run that went through its whole list without a prompt
C4_Witness ==
  /\ argv.force
  /\ pc = "done"
  /\ prompts = 0
  /\ Len(contentItems) >= 2
  /\ calls = contentItems

\* the ids that the text of a log records under a verb: the lines
\* "VERB id", which leaves out the comment lines "// ..."
RecordedWith(text, verb) ==
  { SubSeq(line, 3, Len(line)) :
      line \in { l \in Range(Split(text, NL)) :
                   Len(l) >= 3 /\ <<l[1]>> = verb /\ l[2] = SP } }

\* the fetched items whose id is among ids, in fetch order
FetchedWithIdIn(ids) ==
  SelectIdx(fetched, 1, [k \in 1..Len(fetched) |-> ItemId(fetched[k]) \in ids])

\* the selection is the fetched items that the revert log records under the
\* verb of the other command
SelectedFromRevertLog ==
  contentItems =
    FetchedWithIdIn(RecordedWith(files[argv.revertLog.v],
                      IF cmd = "unarchive" THEN <<"ARCHIVE">> ELSE <<"UNARCHIVE">>))

IdsOf(items) == [k \in 1..Len(items) |-> ItemId(items[k])]

\* the log of the previous run, loaded back, gives under the verb of that run
\* the ids of the items whose call succeeded, in call order
RevertsPrevious ==
  getData(LoadLog(files[prev.path]),
          IF prev.cmd = "archive" THEN <<"ARCHIVE">> ELSE <<"UNARCHIVE">>)
    = IdsOf(prev.succeeded)

IsRegexPattern(p) == Len(p) >= 2 /\ p[1] = "/" /\ p[Len(p)] = "/"

\* body occurs somewhere in value, character for character, "." standing
\* for any character
Occurs(body, value) ==
  \E lo \in 1..(Len(value) + 1) :
    /\ lo + Len(body) - 1 <= Len(value)
    /\ \A k \in 1..Len(body) :
         body[k] \in {".", SubSeq(value, lo, lo + Len(body) - 1)[k]}

\* the pattern matches the value
PatternMatches(p, value) ==
  IF IsRegexPattern(p) THEN Occurs(SubSeq(p, 2, Len(p) - 1), value)
  ELSE p = value

\* the patterns of an argument, given alone or as a list
PatternsOf(arg) == IF arg.kind = "array" THEN Range(arg.v) ELSE {arg.v}

ActionLinesOf(text) ==
  LET lines == Split(text, NL)
  IN  SelectIdx(lines, 1,
        [k \in 1..Len(lines) |->
           lines[k] # << >> /\ ~StartsWith(lines[k], <<SLASHES>>)])

\* the action lines of a run whose calls succeeded on the given items
ActionLinesFor(c, items) ==
  [k \in 1..Len(items) |->
     <<IF c = "archive" THEN "ARCHIVE" ELSE "UNARCHIVE", SP>> \o ItemId(items[k])]

\* C8: the log is written exactly once, after the loop has ended, when silent
\* is not set and a logFile is given, and never when silent is set; the
\* written log holds one action line per item whose call succeeded, in
\* processing order.
C8_LogWrittenOnce ==
  /\ Len(writes) <= 1
  /\ argv.silent => writes = << >>
  /\ pc = "done" =>
       Len(writes) = IF ~argv.silent /\ argv.logFile # Undef THEN 1 ELSE 0
  /\ writes # << >> =>
       /\ pc = "done"
       /\ outstanding = 0
       /\ Len(results) = Len(calls)
       /\ files[writes[1].path] = writes[1].text
       /\ ActionLinesOf(writes[1].text) = ActionLinesFor(cmd, Succeeded)

\* a complete run that wrote its log after two successful calls and a
\* failed one
C8_Witness ==
  /\ pc = "done"
  /\ Len(writes) = 1
  /\ Len(Succeeded) >= 2
  /\ Len(Failed) >= 1

\* the numbers of comments and of action records in a log
NumComments(l) == Cardinality({k \in 1..Len(l.items) : l.items[k].comment})
NumActions(l) == Cardinality({k \in 1..Len(l.items) : ~l.items[k].comment})

\* an archive run without ignoreError whose first call failed has ended
FirstArchiveFailed ==
  /\ cmd = "archive"
  /\ ~argv.ignoreError
  /\ pc = "done"
  /\ 1 \in FailedAt

C10_IdAndNameEndEarly ==
  (Truthy(argv.id) /\ Truthy(argv.name)) =>
    /\ remote = NoRemote
    /\ fetched = << >>
    /\ calls = << >>
    /\ pc \in {"start", "ended"}
    /\ exit \in {0, 90}

\* a run given an id and a name has ended at line 90
C10_Witness ==
  /\ Truthy(argv.id)
  /\ Truthy(argv.name)
  /\ pc = "ended"
  /\ exit = 90
  /\ remote = NoRemote

\* nothing of the run has reached the hub, the user or the file system
NothingDone ==
  /\ calls = << >>
  /\ outstanding = 0
  /\ prompts = 0
  /\ ~asked.done
  /\ writes = << >>
  /\ files \in InitialFiles
  /\ status \in InitialStatuses(cmd)

\* C11: when the item named by id cannot be fetched, when the listing of
\* the items fails, or when the revert log cannot be loaded, the command
\* aborts: no archive or unarchive call is made, no confirmation is
\* requested and no log file is written.
C11_FatalErrorAborts ==
  /\ exit \in {103, 138, 151} => pc = "ended" /\ NothingDone
  /\ ( /\ NotNull(argv.id)
       /\ ItemsWithId(argv.id.v) = {}
       /\ pc \notin {"start", "getById"} )
       => exit \in {90, 103} /\ NothingDone
  /\ ( /\ ~NotNull(argv.id)
       /\ NotNull(argv.revertLog)
       /\ argv.revertLog.v \notin DOMAIN files
       /\ pc \notin {"start", "list", "select"} )
       => exit \in {138, 151} /\ NothingDone

\* the revert log could not be read after several items had been listed,
\* and the command has ended with nothing done
C11_Witness ==
  /\ exit = 151
  /\ Len(contentItems) >= 2
  /\ argv.force
  /\ ~argv.silent
  /\ argv.logFile # Undef
  /\ NothingDone

\* C12: every fatal error (id and name both given, id not found,
\* listing failure, unreadable revert log) makes the command end with a
\* failure outcome, never with a normal completion.
C12_Original ==
  exit \in {90, 103, 138, 151} => Outcome = "rejected"

\* what the log holds once the first k calls have settled
RECURSIVE LoggedUpTo(_)
LoggedUpTo(k) ==
  IF k = 0 THEN << >>
  ELSE LoggedUpTo(k - 1) \o
       ( IF results[k] = "ok"
         THEN << Action(IF cmd = "archive" THEN <<"ARCHIVE">> ELSE <<"UNARCHIVE">>,
                        ItemId(calls[k]) \o <<NL>>) >>
         ELSE << Comment(<<IF cmd = "archive" THEN "ARCHIVE" ELSE "UNARCHIVE",
                           SP, "FAILED:", SP>> \o ItemId(calls[k])),
                 Comment(ErrorText) >> )

\* C13: at most one archive or unarchive call is outstanding at any time;
\* the next call is issued only after the current one has completed and its
\* action line or its failure comments have been added to the log.
C13_OneCallAtATime ==
  /\ outstanding \in {0, 1}
  /\ outstanding = 1 <=> pc = "await"
  /\ Len(calls) = Len(results) + outstanding
  /\ log.items = LoggedUpTo(Len(results))

\* the third call is outstanding, after a failed and a successful one
C13_Witness ==
  /\ outstanding = 1
  /\ Len(calls) = 3
  /\ results = <<"failed", "ok">>
  /\ Len(log.items) = 3

\* the lines of a text that are not empty
NonEmptyLines(text) ==
  LET lines == Split(text, NL)
  IN  SelectIdx(lines, 1, [k \in 1..Len(lines) |-> lines[k] # << >>])

\* C14: when the loop aborts on a failure, the items already processed keep
\* their new state and their action lines stay in the log; no compensating
\* call is made; the log, when the run writes one, is still written with
\* those actions followed by the failure comments.
C14_AbortKeepsProgress ==
  (StoppedAtFailure /\ pc \in {"write", "done"}) =>
    LET n == Len(calls)
        verb == IF cmd = "archive" THEN "ARCHIVE" ELSE "UNARCHIVE"
        done == SubSeq(calls, 1, n - 1)
        failure == << <<SLASHES, SP, verb, SP, "FAILED:", SP>> \o ItemId(calls[n]),
                      <<SLASHES, SP>> \o ErrorText >>
    IN  /\ Len(results) = n
        /\ outstanding = 0
        /\ \A k \in 1..(n - 1) :
             /\ results[k] = "ok"
             /\ status[calls[k]] = TargetStatus(cmd)
        /\ Len(log.items) = n + 1
        /\ \A k \in 1..(n - 1) :
             /\ ~log.items[k].comment
             /\ log.items[k].data = ItemId(calls[k]) \o <<NL>>
        /\ log.items[n].comment /\ log.items[n + 1].comment
        /\ (pc = "done" /\ ~argv.silent /\ Truthy(argv.logFile)) =>
             /\ Len(writes) = 1
             /\ Tail(NonEmptyLines(writes[1].text))
                  = ActionLinesFor(cmd, done) \o failure

\* two items were processed, the third call failed and ended the loop, and
\* the log has been written
C14_Witness ==
  /\ StoppedAtFailure
  /\ pc = "done"
  /\ Len(calls) = 3
  /\ Len(writes) = 1
  /\ successCount = 2

\* C15: during the folder traversal of content-item export, the number of
\* folder traversals in flight never exceeds the parallelism cap of 10, for
\* any number of base folders and subfolders, and each group of traversals
\* is awaited in full before the next group is started.
C15_InFlightWithinCap ==
  /\ Cardinality(inFlight) <= parallelism
  /\ inFlight \subseteq Range(processFolders)
  /\ inFlight \cap Range(nextFolders) = {}

\* the ids that a selected item refers to and that are not selected
OutsideRefs ==
  UNION {Range(hub.refs[selected[k]]) : k \in 1..Len(selected)} \ Range(selected)

\* the log has a line with the given message about the given label or id
Logged(msg, about) ==
  \E j \in 1..Len(elog) : elog[j].msg = msg /\ elog[j].about = about

\* C16: in content-item export, every id referenced by a selected item and
\* absent from the selected set is fetched once; if the fetched item is
\* ACTIVE it is appended to the working set under the dependencies path and
\* written, and if it is archived or cannot be fetched it is not appended
\* and a message naming it is logged.
C16_MissingDependencies ==
  LET Entries(id) == {j \in 1..Len(exportItems) : exportItems[j].item = id}
  IN  /\ \A a, b \in 1..Len(fetches) : a # b => fetches[a].id # fetches[b].id
      /\ {fetches[k].id : k \in 1..Len(fetches)} \subseteq OutsideRefs
      /\ epc \in {"schemas", "save", "done", "threw"} =>
           {fetches[k].id : k \in 1..Len(fetches)} = OutsideRefs
      /\ \A k \in 1..Len(fetches) :
           LET id == fetches[k].id
           IN  IF fetches[k].found /\ hub.status[id] = "ACTIVE"
               THEN /\ Cardinality(Entries(id)) = 1
                    /\ \A j \in Entries(id) : exportItems[j].path = <<"_dependancies/">>
                    /\ Logged("added", ExportLabel(id))
                    /\ epc = "done" =>
                         \E w \in 1..Len(written) :
                           /\ written[w].item = id
                           /\ written[w].path.dir = <<"_dependancies/">>
               ELSE /\ Entries(id) = {}
                    /\ IF fetches[k].found
                       THEN Logged("archived", ExportLabel(id))
                       ELSE Logged("does not exist", <<id>>)

\* an export that has ended after it fetched an id two selected items refer
\* to, added one dependency and reported another one as archived
C16_Witness ==
  /\ epc = "done"
  /\ Len(selected) = 2
  /\ \E id \in OutsideRefs : InSeq(id, hub.refs[1]) /\ InSeq(id, hub.refs[2])
  /\ \E k \in 1..Len(fetches) :
       fetches[k].found /\ hub.status[fetches[k].id] = "ACTIVE"
  /\ \E k \in 1..Len(fetches) :
       ~fetches[k].found /\ fetches[k].id = Ghost
  /\ Len(written) = 3

\* the index of the batch an item is in
BatchOf(a) == CHOOSE k \in 1..Len(batches) : InSeq(a, batches[k])

\* no chain of references of the tree comes back to its start
Acyclic(g) == \A a \in 1..g.n : a \notin ReachFrom(g, 1..g.n, a)

\* C17: traverseDependencyOrder places every item that has no dependencies
\* in batch 0 and, for every acyclic reference graph, places each dependency
\* in a batch whose index is strictly smaller than the batch index of each
\* of its dependents (the set [A, B refs A] gives the batches [[A],[B]]).
C17_DependencyOrder ==
  tdone =>
    /\ \A a \in 1..graph.n : Deps(graph, a) = {} => InSeq(a, batches[1])
    /\ Acyclic(graph) =>
         \A e \in graph.refs : BatchOf(e[2]) < BatchOf(e[1])
    /\ graph = [n |-> 2, refs |-> {<<2, 1>>}] => batches = << <<1>>, <<2>> >>

\* a chain of three items has been put in three batches
C17_Witness ==
  /\ tdone
  /\ graph = [n |-> 3, refs |-> {<<1, 2>>, <<2, 3>>}]
  /\ batches = << <<3>>, <<2>>, <<1>> >>

\* C18: items that lie on a reference cycle are placed together in one
\* batch, and each such item appears in exactly one cycle group: a single
\* self-referencing item forms a one-node group, and the set
\* [A refs B, B refs A] yields the single batch [[A,B]] in input order.
C18_CycleGroups ==
  tdone =>
    LET all == 1..graph.n
    IN  /\ \A a \in all :
             Cardinality({k \in 1..Len(batches) : InSeq(a, batches[k])}) = 1
        /\ \A k \in 1..Len(batches) :
             \A x, y \in 1..Len(batches[k]) : x < y => batches[k][x] < batches[k][y]
        /\ \A a \in all : \A b \in CycleGroup(graph, all, a) : BatchOf(b) = BatchOf(a)
        /\ \A a \in all :
             CycleGroup(graph, all, a) = {a} => batches[BatchOf(a)] = <<a>>
        /\ graph = [n |-> 2, refs |-> {<<1, 2>>, <<2, 1>>}] => batches = << <<1, 2>> >>

\* a cycle of two items that a third item depends on, and that depends on a
\* self-referencing item
C18_Witness ==
  /\ tdone
  /\ graph = [n |-> 3, refs |-> {<<1, 2>>, <<2, 1>>, <<2, 3>>, <<3, 3>>}]
  /\ batches = << <<3>>, <<1, 2>> >>

\* the previous exports hold an entry with the schemaId of the schema
Exported(entity) ==
  \E k \in 1..Len(prevExports) : prevExports[k].schemaId = entity.schemaId

\* C19 as stated: getExportRecordForContentTypeSchema returns CREATED with a
\* newly allocated unique filename if and only if no previously exported
\* entry has the same schemaId; otherwise it allocates no filename, keeps
\* the filename of the matching entry, and returns UP-TO-DATE if the bodies
\* are identical and UPDATED if they differ; repeating the call with the
\* same unchanged inputs returns the same status and filename.
C19_Original ==
  /\ \A k \in 1..Len(records) :
       records[k].status = "CREATED" <=> ~Exported(entities[1])
  /\ \A k, j \in 1..Len(records) :
       /\ records[k].status = records[j].status
       /\ records[k].filename = records[j].filename

\* C19 as amended: as stated, but repeating the call returns the same status,
\* and the same filename only when an entry matches; a CREATED record gets
\* the filename that its own call of uniqueFilename allocates.
C19_ExportRecord ==
  LET e == entities[1]
  IN  /\ \A k \in 1..Len(records) :
           /\ records[k].status = "CREATED" <=> ~Exported(e)
           /\ records[k].status = "CREATED" =>
                \A j \in 1..Len(prevExports) :
                  prevExports[j].filename # records[k].filename
           /\ records[k].status # "CREATED" =>
                \E j \in 1..Len(prevExports) :
                  /\ prevExports[j].schemaId = e.schemaId
                  /\ prevExports[j].filename = records[k].filename
                  /\ records[k].status = "UP-TO-DATE" <=> prevExports[j].body = e.body
                  /\ records[k].status = "UPDATED" <=> prevExports[j].body # e.body
      /\ Len(allocs) = IF Exported(e) THEN 0 ELSE Len(records)
      /\ \A k \in 1..Len(allocs) : records[k].filename = allocs[k]
      /\ \A k, j \in 1..Len(records) :
           /\ records[k].status = records[j].status
           /\ Exported(e) => records[k].filename = records[j].filename

\* two calls on a schema exported before with another body, found in the
\* second of two files
C19_Witness ==
  /\ Len(records) = 2
  /\ Len(prevExports) = 2
  /\ prevExports[1].schemaId # entities[1].schemaId
  /\ records[1].status = "UPDATED"
  /\ records[2].filename = 2

\* C20: in processContentTypeSchemas, when at least one entity is UPDATED
\* and the user declines the overwrite prompt, the process exits with a
\* failure and no file at all is written, including the files of CREATED
\* entities, and no result row is output.
C20_DeclineWritesNothing ==
  /\ (sprompts # << >> /\ ~sprompts[Len(sprompts)]) =>
       /\ spc = "exited"
       /\ sexit > 0
       /\ swritten = << >>
       /\ rows = << >>
  /\ ( /\ spc \in {"header", "write", "done"}
       /\ \E k \in 1..Len(records) : records[k].status = "UPDATED" )
       => sprompts = <<TRUE>>
  /\ Len(sprompts) <= 1

\* the overwrite of an UPDATED schema was declined in a run that also had a
\* CREATED schema
C20_Witness ==
  /\ spc = "exited"
  /\ sprompts = <<FALSE>>
  /\ \E k \in 1..Len(records) : records[k].status = "UPDATED"
  /\ \E k \in 1..Len(records) : records[k].status = "CREATED"

\* the file names of the CREATED and UPDATED records among the first n
FilesDue(n) ==
  LET due == SelectSeq(SubSeq(records, 1, n),
                       LAMBDA r : r.status \in {"CREATED", "UPDATED"})
  IN  [j \in 1..Len(due) |-> due[j].filename]

\* C21: when processContentTypeSchemas is not declined it writes one file
\* for exactly the CREATED and UPDATED entities and none for an UP-TO-DATE
\* entity; the overwrite prompt is asked at most once and only when some
\* entity is UPDATED.
C21_WritesCreatedAndUpdated ==
  /\ spc = "write" => swritten = FilesDue(Len(rows) - 1)
  /\ spc = "done" => /\ swritten = FilesDue(Len(records))
                     /\ Len(records) = Len(entities)
  /\ spc \in {"records", "prompt", "header", "exited"} => swritten = << >>
  /\ Len(sprompts) <= 1
  /\ sprompts # << >> => UpdatedExports(records) # {}

\* a finished run that was asked once, wrote a file and left an up-to-date
\* schema alone
C21_Witness ==
  /\ spc = "done"
  /\ sprompts = <<TRUE>>
  /\ swritten # << >>
  /\ \E j \in 1..Len(records) : records[j].status = "UP-TO-DATE"

EventActions == SelectSeq(vlog.items, LAMBDA it : ~it.comment)

\* C23: in event archive an event is recorded as an action line of the log
\* and counted in the processed total only if the archive or delete call on
\* that event was issued and succeeded; when the link never appears the
\* event is recorded only by failure comments.
C23_RecordedOnlyAfterCall ==
  /\ \A j \in 1..Len(EventActions) :
       \E e \in called : EventActions[j].data = ItemId(e) \o <<NL>>
  /\ vcount <= Cardinality(called)

\* the editions of an event that are in a list
InList(e, list) == {list[j].n : j \in 1..Len(list)}

\* C24: event archive chooses the command DELETE for an event if and only if
\* every one of its editions has publishing status DRAFT, UNSCHEDULING,
\* SCHEDULED or SCHEDULING (an event with no editions included), and ARCHIVE
\* if any edition has another status; an edition is in at most one of the
\* delete, unschedule and archive lists.
C24_CommandChoice ==
  vpc = "confirm" =>
    \A k \in 1..Len(events) :
      LET e == events[k]
      IN  /\ e.command = <<"DELETE">> <=>
                \A j \in 1..Len(e.editions) :
                  e.editions[j].status \in
                    {"DRAFT", "UNSCHEDULING", "SCHEDULED", "SCHEDULING"}
          /\ e.command \in {<<"DELETE">>, <<"ARCHIVE">>}
          /\ InList(e, e.deleteEditions) \cap InList(e, e.unscheduleEditions) = {}
          /\ InList(e, e.deleteEditions) \cap InList(e, e.archiveEditions) = {}
          /\ InList(e, e.unscheduleEditions) \cap InList(e, e.archiveEditions) = {}
          /\ Len(e.deleteEditions) + Len(e.unscheduleEditions)
               + Len(e.archiveEditions) <= Len(e.editions)

\* an event of a draft, an unscheduling and a scheduling edition got the
\* command DELETE
C24_Witness ==
  /\ vpc = "confirm"
  /\ events[1].command = <<"DELETE">>
  /\ {events[1].editions[j].status : j \in 1..Len(events[1].editions)} =
       {"DRAFT", "UNSCHEDULING", "SCHEDULING"}

\* the call of kind and edition has succeeded before position p of the trace
OkBefore(p, kind, ed) ==
  \E r \in 1..(p - 1) :
    trace[r] = [op |-> "ok", kind |-> kind, edition |-> ed]

\* the order of the stages of one event
Stage(kind) ==
  CASE kind = "unschedule" -> 1
    [] kind = "delete" -> 2
    [] kind = "archive" -> 3
    [] kind = "event" -> 4

\* the editions of a list that carry their link
Linked(list) == {list[j].n : j \in {x \in 1..Len(list) : list[x].link}}

\* C25: for each event, all unschedule calls of its scheduled editions
\* complete before any edition delete or edition archive call is issued; for
\* an ARCHIVE event all draft-edition deletes complete before any
\* published-edition archive is issued; the call on the event itself is
\* issued only after all of its edition calls have completed without error.
C25_EditionCallsInOrder ==
  \A p \in 1..Len(trace) :
    trace[p].op = "issue" =>
      LET e == events[vi]
          st == Stage(trace[p].kind)
      IN  /\ \A q \in 1..Len(trace) :
                (trace[q].op = "issue" /\ Stage(trace[q].kind) < st) =>
                  OkBefore(p, trace[q].kind, trace[q].edition)
          /\ st > 1 => \A n \in Linked(e.unscheduleEditions) :
                         OkBefore(p, "unschedule", n)
          /\ (st > 2 /\ e.command = <<"ARCHIVE">>) =>
                \A n \in Linked(e.deleteEditions) : OkBefore(p, "delete", n)
          /\ (st > 3 /\ e.command = <<"ARCHIVE">>) =>
                \A n \in Linked(e.archiveEditions) : OkBefore(p, "archive", n)
          /\ st = 4 => \A r \in 1..(p - 1) : trace[r].op # "fail"

\* the call on an ARCHIVE event has been issued after a scheduled edition
\* was unscheduled, a draft one deleted and a published one archived
C25_Witness ==
  /\ vpc = "eventcall"
  /\ events[vi].command = <<"ARCHIVE">>
  /\ \E a, b, c \in 1..Len(trace) :
       /\ a < b /\ b < c
       /\ trace[a].op = "ok" /\ trace[a].kind = "unschedule"
       /\ trace[b].op = "ok" /\ trace[b].kind = "delete"
       /\ trace[c].op = "ok" /\ trace[c].kind = "archive"

\* C26: getEventUntilSuccess ends after at most 200 fetches of the event: it
\* returns the link at the first fetch in which the link is present and
\* fetches no more, and returns nothing after 200 fetches none of which
\* carried the link.
C26_AtMostLimitFetches ==
  vpc = "returned" =>
    /\ got[1].fetches <= 200
    /\ \A n \in 1..200 :
         (responses[n] = "link" /\ \A m \in 1..(n - 1) : responses[m] = "none")
           => got[1] = [result |-> "link", fetches |-> n]
    /\ (\A n \in 1..200 : responses[n] = "none")
         => got[1] = [result |-> "nothing", fetches |-> 200]

\* the link was there from the 201st fetch on, and nothing was returned
C26_Witness ==
  /\ vpc = "returned"
  /\ responses[201] = "link"
  /\ \A n \in 1..200 : responses[n] = "none"
  /\ got[1].result = "nothing"

\* the items are looked for in folders, all of which can be fetched
GoodFoldersGiven ==
  /\ ~NotNull(argv.id)
  /\ NotNull(argv.folderId)
  /\ \A k \in 1..Len(AsArray(argv.folderId)) :
       InSeq(AsArray(argv.folderId)[k], FolderIds)

\* C27: in content-item archive/unarchive, when folderId is given the repoId
\* has no influence on the outcome: a run whose repoId names a repository
\* that cannot be fetched goes as the run without repoId does. The hub is
\* fetched, then the folders, then their items are listed: no run with
\* folders that can be fetched ends before the listing after it has asked
\* for a repository, and the items found are those of the folders.
C27_RepoIdWithoutInfluence ==
  GoodFoldersGiven =>
    /\ (exit = 138 /\ remote.itemList = 0) => remote.repoGet = 0
    /\ pc = "select" =>
         \E order \in Perms(Len(AsArray(argv.folderId))) :
           fetched = Listed(cmd, AsArray(argv.folderId), TRUE, order, status)

\* the ids the revert log records under the verb the command replays for
\* which no item was fetched
IdsNotFetched ==
  { id \in RecordedWith(files[argv.revertLog.v], RevertVerbOf(cmd)) :
      \A j \in 1..Len(fetched) : ItemId(fetched[j]) # id }

\* C28: in revert-log mode of content-item archive/unarchive, the
\* missing-content warning flag passed to the confirmation is set if and
\* only if at least one id recorded in the log has no matching fetched item.
C28_MissingContentFlag ==
  (asked.done /\ ~NotNull(argv.id) /\ NotNull(argv.revertLog)) =>
    (asked.missingContent <=> IdsNotFetched # {})

\* an id is in the working set, or the log says that its item is archived or
\* that it does not exist
InSetOrReported(id) ==
  \/ byIdHas(exportItems, id)
  \/ id \in ExportItems /\ Logged("archived", ExportLabel(id))
  \/ Logged("does not exist", <<id>>)

\* C29: after the missing-dependency step of content-item export the working
\* set is closed under references: every item referenced, directly or
\* through other items of the working set, by an item of the working set is
\* itself in the working set, or has been reported in the log as archived or
\* as not existing.
C29_ClosedUnderReferences ==
  epc \in {"schemas", "save", "done", "threw"} =>
    \A k \in 1..Len(exportItems) :
      \A d \in Range(hub.refs[exportItems[k].item]) : InSetOrReported(d)

\* the loop of lines 383-422 under a fair scheduling of its steps
FairTraverse == SpecTraverse /\ WF_vars(NextTraverse)

\* the traversal loop comes to its end
TraverseEnds == <>(tpc = "done")

\* C30: the folder traversal loop of content-item export terminates for every
\* finite folder hierarchy, and when it ends the pending queue is empty and
\* every subfolder that was discovered by a successful subfolder listing has
\* been processed exactly once; a folder whose item listing or subfolder
\* listing fails is skipped without stopping the traversal of the other
\* folders.
C30_EachSubfolderOnce ==
  /\ \A f \in discovered : CopiesIn(f, visits) <= 1
  /\ tpc = "done" =>
       /\ nextFolders = << >>
       /\ inFlight = {}
       /\ \A f \in discovered : CopiesIn(f, visits) = 1
       /\ \A b \in 1..Len(BaseFolders(shape)) :
            CopiesIn(BaseFolders(shape)[b], visits) >= 1

====
